---------------------------- MODULE Spec2Model ----------------------------
(***************************************************************************)
(* The slave ("upper computer") side of the VMC serial protocol, as        *)
(* implemented twice in the repository:                                    *)
(*   - VMCTransport  (src/vmc_transport.py): one lock held across each     *)
(*     frame handler;                                                      *)
(*   - VMCConnection (src/app.py): a serial thread and a WebSocket thread  *)
(*     sharing state under state_lock, taken only around short sections.   *)
(* A behaviour exercises one of the two engines (variable engine).         *)
(***************************************************************************)
EXTENDS Integers, Sequences, FiniteSets, TLC

VARIABLES
    engine,      \* which implementation this behaviour exercises
    transport,   \* VMCTransport fields: state, next_comm_no, pending_cmd
    conn,        \* VMCConnection fields: state, current_cmd (reference), next_comm
    heap,        \* the command dicts VMCConnection.current_cmd / local c refer to
    serialTh,    \* VMCConnection serial thread: position and locals
    wsTh,        \* VMCConnection WebSocket thread: position and locals
    cur,         \* the received frame being handled (or last handled) and the state it met
    tx,          \* frames written to the serial link while handling cur
    ev,          \* events (callbacks / WebSocket messages) emitted while handling cur
    enq,         \* the most recent enqueue attempt: outcome, state before and after
    hist,        \* history of the open (or last) transaction
    issued,      \* sequence numbers assigned by successful enqueues, in order
    actor,       \* the thread that took the last step: "serial", "caller" or "none"
    aged,        \* whether the engine began with completed transactions behind it
    terminal,    \* per successful enqueue, in order: the terminal events emitted for it
    io           \* input and output of the byte-level functions (parsers, decoders)

vars == <<engine, transport, conn, heap, serialTh, wsTh, cur, tx, ev, enq, hist,
          issued, actor, aged, terminal, io>>

---------------------------------------------------------------------------
(* Bounds of the model *)

\* successful enqueues per behaviour
MaxEnqueues == 2
\* failing serial writes per transaction
MaxWriteFails == 1
\* an aged engine starts AgedBack numbers before the largest communication number
AgedBack == 0
\* payload bytes of the frames put on the wire
MaxPayloadLen == 2
\* bytes of noise before a frame
MaxGarbageLen == 4
\* bytes of the longest payload given to a decoder
MaxDecodeLen == 26

---------------------------------------------------------------------------
(* Protocol constants *)

STX1 == 250
STX2 == 251
CMD_POLL == 65
CMD_ACK == 66
CMD_SELECT_BUY == 3
CMD_DIRECT_VEND == 6
CMD_SET_PRICE == 18
CMD_INFO_SYNC == 49
CMD_SLOT_INFO == 17
CMD_VEND_STATUS == 4
\* retries allowed before a command is abandoned
MAX_RETRIES == 5
\* largest communication number
MAX_COMM == 255

T == "VMCTransport"
A == "VMCConnection"
Engines == {T, A}

---------------------------------------------------------------------------
(* Bytes *)

\* ^ on two 4-bit numbers, bit by bit
Xor4 ==
    [a \in 0..15, b \in 0..15 |->
        LET bit(i) == (((a \div (2 ^ i)) % 2) + ((b \div (2 ^ i)) % 2)) % 2
        IN  bit(0) + 2 * bit(1) + 4 * bit(2) + 8 * bit(3)]

\* Python's ^ on two bytes
BitXor(a, b) == 16 * Xor4[a \div 16, b \div 16] + Xor4[a % 16, b % 16]

\* xor_val = 0; for b in bytes: xor_val ^= b
XorAll(bytes) ==
    LET acc[i \in 0..Len(bytes)] == IF i = 0 THEN 0 ELSE BitXor(acc[i - 1], bytes[i])
    IN  acc[Len(bytes)]

\* faulty variant of build_frame: the length byte does not count the sequence byte
build_frame_LengthWithoutSeq(cmd_id, comm_no, payload_bytes) ==
    LET full_payload == <<comm_no>> \o payload_bytes
        header == <<STX1, STX2, cmd_id, Len(payload_bytes)>>
    IN  header \o full_payload \o <<XorAll(header \o full_payload)>>

\* vmc_protocol.build_frame
build_frame(cmd_id, comm_no, payload_bytes) ==
    LET full_payload == <<comm_no>> \o payload_bytes
        header == <<STX1, STX2, cmd_id, Len(full_payload)>>
    IN  header \o full_payload \o <<XorAll(header \o full_payload)>>

\* faulty variant of build_packet: the length byte counts the checksum byte too
build_packet_CountsChecksum(cmd, payload) ==
    LET header == <<STX1, STX2, cmd, Len(payload) + 1>>
    IN  header \o payload \o <<XorAll(header \o payload)>>

\* app.build_packet
build_packet(cmd, payload) ==
    LET header == <<STX1, STX2, cmd, Len(payload)>>
    IN  header \o payload \o <<XorAll(header \o payload)>>

\* faulty variant of the literal: the checksum byte is 0x42
TransportAck_BadChecksum == <<STX1, STX2, CMD_ACK, 0, 66>>

\* VMCTransport._send_ack: the literal FA FB 42 00 43
TransportAck == <<STX1, STX2, CMD_ACK, 0, 67>>

---------------------------------------------------------------------------
(* Inputs *)

\* commands a caller enqueues: buy selection=12, get_slots
Commands ==
    { [cmd |-> CMD_SELECT_BUY, payload |-> <<0, 12>>, desc |-> "buy selection=12"],
      [cmd |-> CMD_INFO_SYNC,  payload |-> <<>>,      desc |-> "get_slots"] }

\* checksum-valid data frames the VMC sends (command id neither poll nor ack)
DataFrames ==
    { [cmd |-> CMD_SLOT_INFO,   payload |-> <<1, 0, 12, 0, 0>>],
      [cmd |-> CMD_VEND_STATUS, payload |-> <<1, 2, 0, 12>>],
      [cmd |-> 153,             payload |-> <<7, 170, 187>>] }

\* outcome of ser.write: TRUE written, FALSE raised
WriteOutcomes == IF hist.fails < MaxWriteFails THEN {TRUE, FALSE} ELSE {TRUE}

\* successful enqueues per behaviour, enough to pass the counter's wrap
EnqueueLimit == MaxEnqueues + AgedBack

---------------------------------------------------------------------------
(* VMCTransport (src/vmc_transport.py) *)

\* the result of running a piece of handler code: the object after it, the frames
\* written, the callbacks made, and whether it raised
Ran(self, written, called, raised) ==
    [self |-> self, tx |-> written, ev |-> called, raised |-> raised]

\* VMCTransport.__init__: the fields after construction
TransportNew == [state |-> "idle", next_comm_no |-> 1, pending_cmd |-> <<>>]

\* faulty variant of send_command: the state is not checked, a pending command is
\* overwritten
send_command_NoBusyCheck(self, cmd_id, payload_bytes, description) ==
    LET comm == self.next_comm_no
        next == IF self.next_comm_no < MAX_COMM THEN self.next_comm_no + 1 ELSE 1
        cmd  == [cmd_id |-> cmd_id, comm_no |-> comm, payload |-> payload_bytes,
                 retries |-> 0, desc |-> description]
    IN  Ran([state |-> "waiting_ack", next_comm_no |-> next, pending_cmd |-> <<cmd>>],
            <<>>,
            <<[event |-> "Queued", comm_no |-> comm, desc |-> description]>>,
            "none")

\* faulty variant of send_command: the frame is written at once instead of on
\* the next poll
send_command_WritesAtOnce(self, cmd_id, payload_bytes, description) ==
    IF self.state # "idle"
    THEN Ran(self, <<>>, <<>>, "Busy")
    ELSE LET comm == self.next_comm_no
             next == IF self.next_comm_no < MAX_COMM THEN self.next_comm_no + 1 ELSE 1
             cmd  == [cmd_id |-> cmd_id, comm_no |-> comm, payload |-> payload_bytes,
                      retries |-> 1, desc |-> description]
         IN  Ran([state |-> "waiting_ack", next_comm_no |-> next, pending_cmd |-> <<cmd>>],
                 <<build_frame(cmd_id, comm, payload_bytes)>>,
                 <<[event |-> "Queued", comm_no |-> comm, desc |-> description]>>,
                 "none")

\* VMCTransport.send_command, the whole method (it runs under self.lock)
send_command(self, cmd_id, payload_bytes, description) ==
    IF self.state # "idle"
    THEN Ran(self, <<>>, <<>>, "Busy")
    ELSE LET comm == self.next_comm_no
             next == IF self.next_comm_no < MAX_COMM THEN self.next_comm_no + 1 ELSE 1
             cmd  == [cmd_id |-> cmd_id, comm_no |-> comm, payload |-> payload_bytes,
                      retries |-> 0, desc |-> description]
         IN  Ran([state |-> "waiting_ack", next_comm_no |-> next, pending_cmd |-> <<cmd>>],
                 <<>>,
                 <<[event |-> "Queued", comm_no |-> comm, desc |-> description]>>,
                 "none")

\* VMCTransport._send_ack after the callbacks `called`; a failing ser.write raises
TransportSendAck(self, called, ok) ==
    IF ok THEN Ran(self, <<TransportAck>>, called, "none")
          ELSE Ran(self, <<>>, called, "SerialError")

\* faulty variant of _transmit_pending: the retry test is off by one (> for >=)
TransmitPending_OffByOne(self, ok) ==
    LET c == self.pending_cmd[1] IN
    IF c.retries > MAX_RETRIES
    THEN TransportSendAck([self EXCEPT !.state = "idle", !.pending_cmd = <<>>],
                          <<[event |-> "Timeout", desc |-> c.desc]>>, ok)
    ELSE IF ok
         THEN Ran([self EXCEPT !.pending_cmd = <<[c EXCEPT !.retries = @ + 1]>>],
                  <<build_frame(c.cmd_id, c.comm_no, c.payload)>>, <<>>, "none")
         ELSE Ran(self, <<>>, <<>>, "SerialError")

\* VMCTransport._transmit_pending
TransmitPending(self, ok) ==
    LET c == self.pending_cmd[1] IN
    IF c.retries >= MAX_RETRIES
    THEN TransportSendAck([self EXCEPT !.state = "idle", !.pending_cmd = <<>>],
                          <<[event |-> "Timeout", desc |-> c.desc]>>, ok)
    ELSE IF ok
         THEN Ran([self EXCEPT !.pending_cmd = <<[c EXCEPT !.retries = @ + 1]>>],
                  <<build_frame(c.cmd_id, c.comm_no, c.payload)>>, <<>>, "none")
         ELSE Ran(self, <<>>, <<>>, "SerialError")

\* faulty variant of the poll branch: the poll that ends a transaction is not acked
TransportOnPoll_FinishWithoutAck(self, ok) ==
    IF self.state = "waiting_ack" /\ self.pending_cmd # <<>>
    THEN TransmitPending(self, ok)
    ELSE IF self.state = "waiting_data" /\ self.pending_cmd # <<>>
         THEN Ran([self EXCEPT !.state = "idle", !.pending_cmd = <<>>], <<>>,
                  <<[event |-> "Finished", desc |-> self.pending_cmd[1].desc]>>, "none")
         ELSE TransportSendAck(self, <<>>, ok)

\* faulty variant of the poll branch: in waiting_data a poll is only acked, the
\* transaction stays open
TransportOnPoll_WaitsForData(self, ok) ==
    IF self.state = "waiting_ack" /\ self.pending_cmd # <<>>
    THEN TransmitPending(self, ok)
    ELSE TransportSendAck(self, <<>>, ok)

\* VMCTransport._handle_valid_packet lines 95-108: a poll, under self.lock
TransportOnPoll(self, ok) ==
    IF self.state = "waiting_ack" /\ self.pending_cmd # <<>>
    THEN TransmitPending(self, ok)
    ELSE IF self.state = "waiting_data" /\ self.pending_cmd # <<>>
         THEN TransportSendAck([self EXCEPT !.state = "idle", !.pending_cmd = <<>>],
                               <<[event |-> "Finished", desc |-> self.pending_cmd[1].desc]>>,
                               ok)
         ELSE TransportSendAck(self, <<>>, ok)

\* faulty variant of the ack branch: the state is not checked
TransportOnAck_AnyState(self) ==
    Ran([self EXCEPT !.state = "waiting_data"], <<>>,
        <<[event |-> "ACK received from VMC"]>>, "none")

\* VMCTransport._handle_valid_packet lines 111-115: an ack, under self.lock
TransportOnAck(self) ==
    IF self.state = "waiting_ack"
    THEN Ran([self EXCEPT !.state = "waiting_data"], <<>>,
             <<[event |-> "ACK received from VMC"]>>, "none")
    ELSE Ran(self, <<>>, <<>>, "none")

\* faulty variant of the data branch: the frame is passed on but not acked
TransportOnData_NoAck(self, cmd, payload, ok) ==
    Ran(self, <<>>, <<[event |-> "on_packet", cmd |-> cmd, payload |-> payload]>>, "none")

\* VMCTransport._handle_valid_packet lines 117-120: any other frame; _send_ack,
\* then the on_packet callback (not reached when the write raises)
TransportOnData(self, cmd, payload, ok) ==
    IF ok
    THEN Ran(self, <<TransportAck>>,
             <<[event |-> "on_packet", cmd |-> cmd, payload |-> payload]>>, "none")
    ELSE Ran(self, <<>>, <<>>, "SerialError")

\* VMCTransport._handle_valid_packet
HandleValidPacket(self, cmd, payload, ok) ==
    IF cmd = CMD_POLL THEN TransportOnPoll(self, ok)
    ELSE IF cmd = CMD_ACK THEN TransportOnAck(self)
    ELSE TransportOnData(self, cmd, payload, ok)

\* VMCTransport._loop: an exception out of _process_buffer is logged, the loop goes on
LoopCatch(r) ==
    IF r.raised = "none" THEN r.ev
    ELSE r.ev \o <<[event |-> "Serial Error"]>>

---------------------------------------------------------------------------
(* VMCConnection (src/app.py): objects *)

\* VMCConnection.__init__: the fields after construction; current_cmd is a
\* reference into heap, 0 for None
ConnNew == [state |-> "idle", current_cmd |-> 0, next_comm |-> 1]

Refs == {1, 2}

\* no command dict allocated
HeapNew == [r \in Refs |-> <<>>]

\* a reference no live variable holds (held: the references other variables hold)
FreshRef(held) == IF 1 \notin held THEN 1 ELSE 2

\* the heap with every dict no variable refers to any more released
Collect(h, roots) == [r \in Refs |-> IF r \in roots THEN h[r] ELSE <<>>]

\* faulty variant of _next_comm: the counter wraps to 0
next_comm_after_WrapsToZero(self) ==
    IF self.next_comm + 1 > MAX_COMM THEN 0 ELSE self.next_comm + 1

\* VMCConnection._next_comm: the number returned and the counter after it
next_comm_after(self) ==
    IF self.next_comm + 1 > MAX_COMM THEN 1 ELSE self.next_comm + 1

\* VMCConnection._queue_command, the section under state_lock (lines 175-189);
\* held: the references the serial thread holds
queue_command(self, h, held, cmd, text_bytes, desc) ==
    IF /\ self.state # "idle"
       /\ self.current_cmd # 0
       /\ ~h[self.current_cmd][1].done
    THEN [self |-> self, heap |-> h, raised |-> "Busy", comm_no |-> 0]
    ELSE LET comm_no == self.next_comm
             ref == FreshRef(held)
             dict == [cmd |-> cmd, text |-> text_bytes, comm |-> comm_no, retries |-> 0,
                      acked |-> FALSE, done |-> FALSE, desc |-> desc]
         IN  [self |-> [state |-> "waiting_ack", current_cmd |-> ref,
                        next_comm |-> next_comm_after(self)],
              heap |-> Collect([h EXCEPT ![ref] = <<dict>>], held \cup {ref}),
              raised |-> "none", comm_no |-> comm_no]

\* int.from_bytes(bytes, "big")
RECURSIVE FromBytes(_)
FromBytes(bytes) ==
    IF bytes = <<>> THEN 0
    ELSE 256 * FromBytes(SubSeq(bytes, 1, Len(bytes) - 1)) + bytes[Len(bytes)]

\* VMCConnection._handle_data_from_vmc, lines 440-498: the event sent to the
\* WebSocket for a data frame (raw: the frame's bytes, which the code shows in hex)
DataEvent(cmd, payload) ==
    LET raw == build_packet(cmd, payload) IN
    IF cmd = CMD_SLOT_INFO /\ Len(payload) >= 12
    THEN [event |-> "slot_info", pack_no |-> payload[1],
          selection |-> FromBytes(SubSeq(payload, 2, 3)),
          price |-> FromBytes(SubSeq(payload, 4, 7)),
          inventory |-> payload[8], capacity |-> payload[9],
          product_id |-> FromBytes(SubSeq(payload, 10, 11)),
          status |-> payload[12], cmd |-> cmd, raw |-> raw]
    ELSE IF cmd = CMD_VEND_STATUS /\ Len(payload) >= 4
         THEN [event |-> "vend_status", pack_no |-> payload[1],
               selection |-> FromBytes(SubSeq(payload, 3, 4)),
               status |-> payload[2], cmd |-> cmd, raw |-> raw]
         ELSE IF payload # <<>>
              THEN [event |-> "vmc_data", pack_no |-> payload[1],
                    data_hex |-> SubSeq(payload, 2, Len(payload)), cmd |-> cmd, raw |-> raw]
              ELSE [event |-> "vmc_data", cmd |-> cmd, raw |-> raw]

\* VMCConnection._log: a line on the console and a "log" message to the WebSocket
Log(msg) == [event |-> "log", message |-> msg]

---------------------------------------------------------------------------
(* What both engines expose: the state, the pending command, the counter *)

\* the pending command of VMCTransport, as <<>> or <<[cmd, comm, payload, retries]>>
TransportPending(self) ==
    IF self.pending_cmd = <<>> THEN <<>>
    ELSE LET c == self.pending_cmd[1]
         IN  <<[cmd |-> c.cmd_id, comm |-> c.comm_no, payload |-> c.payload,
                retries |-> c.retries]>>

\* the pending command of VMCConnection, in the same shape
ConnPending(self, h) ==
    IF self.current_cmd = 0 THEN <<>>
    ELSE LET c == h[self.current_cmd][1]
         IN  <<[cmd |-> c.cmd, comm |-> c.comm, payload |-> c.text,
                retries |-> c.retries]>>

TransportSnap(self) ==
    [state |-> self.state, pending |-> TransportPending(self), next |-> self.next_comm_no]

ConnSnap(self, h) ==
    [state |-> self.state, pending |-> ConnPending(self, h), next |-> self.next_comm]

\* state, pending command and sequence counter of the engine under test
Snap == IF engine = T THEN TransportSnap(transport) ELSE ConnSnap(conn, heap)

State == Snap.state
Pending == Snap.pending
NextComm == Snap.next

---------------------------------------------------------------------------
(* Observation *)

FrameKind(cmd) ==
    IF cmd = CMD_POLL THEN "poll" ELSE IF cmd = CMD_ACK THEN "ack" ELSE "data"

\* a frame written to the serial link that is the bare ack FA FB 42 00 43
IsAck(f) == f = <<STX1, STX2, CMD_ACK, 0, 67>>

NoFrame == [op |-> "none", cmd |-> 0, payload |-> <<>>, enqs |-> 0,
            pre |-> [state |-> "idle", pending |-> <<>>, next |-> 0], done |-> TRUE]

NoEnqueue == [res |-> "none", comm |-> 0, tx |-> <<>>, ev |-> <<>>,
              pre |-> [state |-> "idle", pending |-> <<>>, next |-> 0],
              post |-> [state |-> "idle", pending |-> <<>>, next |-> 0]]

HistNew == [polls |-> 0, cmdTx |-> 0, fails |-> 0, data |-> FALSE, frames |-> {}]

\* no byte-level function under test
NoIo == [fn |-> "none"]

\* the events that end a transaction: on_log("Timeout: ..") / on_log("Finished: ..")
\* of VMCTransport, command_timeout / command_finished of VMCConnection
IsTerminalEvent(e) ==
    e.event \in {"Timeout", "Finished", "command_timeout", "command_finished"}

TerminalKind(e) ==
    IF e.event \in {"Timeout", "command_timeout"} THEN "timeout" ELSE "finished"

\* term with one more terminal event of kind `kind` for the command that was given
\* the number comm (the latest such command of nums)
Credit(term, nums, comm, kind) ==
    LET idx == {i \in 1..Len(nums) : nums[i] = comm} IN
    IF idx = {} THEN term
    ELSE LET last == CHOOSE i \in idx : \A j \in idx : j <= i
         IN  [term EXCEPT ![last] = Append(@, kind)]

RECURSIVE CreditEach(_, _, _, _)
\* term with every terminal event among events credited to the command comm
CreditEach(term, nums, comm, events) ==
    IF events = <<>> THEN term
    ELSE CreditEach(IF IsTerminalEvent(Head(events))
                    THEN Credit(term, nums, comm, TerminalKind(Head(events)))
                    ELSE term,
                    nums, comm, Tail(events))

\* polls counted per transaction: the count stops at PollCap
PollCap == MAX_RETRIES + 3

IsNotAck(f) == ~IsAck(f)

\* the history of the open transaction after a piece of handler code that wrote
\* written, whose write failed or not; kind: the frame whose handling the code
\* begins ("" when it continues one), met: the state the frame met
HistAfter(h, kind, met, written, failed) ==
    [polls |-> IF kind = "poll" /\ h.polls < PollCap THEN h.polls + 1 ELSE h.polls,
     cmdTx |-> h.cmdTx + Len(SelectSeq(written, IsNotAck)),
     fails |-> h.fails + (IF failed THEN 1 ELSE 0),
     data  |-> h.data \/ (kind = "data" /\ met = "waiting_data"),
     frames |-> h.frames \cup {written[i] : i \in {j \in 1..Len(written) : IsNotAck(written[j])}}]

---------------------------------------------------------------------------
(* Initial states *)

AgedComm == MAX_COMM - AgedBack

\* After construction (counter 1); or an idle engine that has completed enough
\* transactions for its counter to be near MAX_COMM, so that the wrap is within reach.
Init ==
    /\ engine \in Engines
    /\ aged \in BOOLEAN
    /\ transport = [TransportNew EXCEPT
                       !.next_comm_no = IF engine = T /\ aged THEN AgedComm ELSE @]
    /\ conn = [ConnNew EXCEPT !.next_comm = IF engine = A /\ aged THEN AgedComm ELSE @]
    /\ heap = HeapNew
    /\ serialTh = [pc |-> "idle", state |-> "idle", c |-> 0, frame |-> <<>>]
    /\ wsTh = [pc |-> "idle", cmd |-> 0, comm_no |-> 0, desc |-> ""]
    /\ cur = NoFrame
    /\ tx = <<>>
    /\ ev = <<>>
    /\ enq = NoEnqueue
    /\ hist = HistNew
    /\ issued = <<>>
    /\ actor = "none"
    /\ terminal = <<>>
    /\ io = NoIo

---------------------------------------------------------------------------
(* VMCTransport: the caller's thread and the reader thread *)

\* a caller thread runs send_command
TransportSendCommand(c) ==
    /\ engine = T
    /\ transport.state = "idle" => Len(issued) < EnqueueLimit
    /\ LET r == send_command(transport, c.cmd, c.payload, c.desc) IN
          /\ transport' = r.self
          /\ enq' = [res  |-> IF r.raised = "none" THEN "ok" ELSE r.raised,
                     comm |-> IF r.raised = "none" THEN r.self.pending_cmd[1].comm_no ELSE 0,
                     tx   |-> r.tx, ev |-> r.ev,
                     pre  |-> TransportSnap(transport),
                     post |-> TransportSnap(r.self)]
          /\ issued' = IF r.raised = "none"
                       THEN Append(issued, r.self.pending_cmd[1].comm_no) ELSE issued
          /\ terminal' = IF r.raised = "none" THEN Append(terminal, <<>>) ELSE terminal
          /\ hist' = IF r.raised = "none" THEN HistNew ELSE hist
    /\ cur' = NoFrame
    /\ tx' = <<>>
    /\ ev' = <<>>
    /\ actor' = "caller"
    /\ UNCHANGED <<engine, aged, io, conn, heap, serialTh, wsTh>>

\* the reader thread (_loop, _process_buffer) delivers one checksum-valid frame
TransportReceive(cmd, payload, ok) ==
    /\ engine = T
    /\ LET r == HandleValidPacket(transport, cmd, payload, ok) IN
          /\ transport' = r.self
          /\ cur' = [op |-> FrameKind(cmd), cmd |-> cmd, payload |-> payload,
                     enqs |-> Len(issued), pre |-> TransportSnap(transport),
                     done |-> TRUE]
          /\ tx' = r.tx
          /\ ev' = LoopCatch(r)
          /\ terminal' = IF transport.pending_cmd = <<>> THEN terminal
                         ELSE CreditEach(terminal, issued,
                                         transport.pending_cmd[1].comm_no, r.ev)
          /\ hist' = IF transport.state = "idle" THEN HistNew
                      ELSE HistAfter(hist, FrameKind(cmd), transport.state, r.tx,
                                     r.raised = "SerialError")
    /\ enq' = NoEnqueue
    /\ actor' = "serial"
    /\ UNCHANGED <<engine, aged, conn, heap, serialTh, wsTh, issued>>

---------------------------------------------------------------------------
(* VMCConnection: the WebSocket thread (handle_ws_message -> _queue_command) *)

\* observation of the serial side once a caller has acted: kept while a frame is
\* being handled, cleared otherwise
CallerSeesFrame ==
    IF serialTh.pc = "idle"
    THEN cur' = NoFrame /\ tx' = <<>> /\ ev' = <<>>
    ELSE UNCHANGED <<cur, tx, ev>>

\* _queue_command lines 173-189; a raise is caught by handle_ws_message (165-166)
ConnQueueCommand(c) ==
    /\ engine = A
    /\ wsTh.pc = "idle"
    /\ conn.state = "idle" => Len(issued) < EnqueueLimit
    /\ LET r == queue_command(conn, heap, {serialTh.c}, c.cmd, c.payload, c.desc) IN
          /\ conn' = r.self
          /\ heap' = r.heap
          /\ enq' = [res  |-> IF r.raised = "none" THEN "ok" ELSE r.raised,
                     comm |-> r.comm_no,
                     tx   |-> <<>>,
                     ev   |-> IF r.raised = "none"
                              THEN <<Log("Trying to queue command")>>
                              ELSE <<Log("Trying to queue command"),
                                     [event |-> "error", error |-> "exception"]>>,
                     pre  |-> ConnSnap(conn, heap),
                     post |-> ConnSnap(r.self, r.heap)]
          /\ wsTh' = IF r.raised = "none"
                     THEN [pc |-> "notify", cmd |-> c.cmd, comm_no |-> r.comm_no,
                           desc |-> c.desc]
                     ELSE wsTh
          /\ issued' = IF r.raised = "none" THEN Append(issued, r.comm_no) ELSE issued
          /\ terminal' = IF r.raised = "none" THEN Append(terminal, <<>>) ELSE terminal
          /\ hist' = IF r.raised = "none" THEN HistNew ELSE hist
    /\ CallerSeesFrame
    /\ actor' = "caller"
    /\ UNCHANGED <<engine, aged, io, transport, serialTh>>

\* _queue_command lines 191-197: the log line and the command_queued message
ConnQueueNotify ==
    /\ engine = A
    /\ wsTh.pc = "notify"
    /\ enq' = [enq EXCEPT !.ev = @ \o <<Log("Command queued"),
                                       [event |-> "command_queued", cmd |-> wsTh.cmd,
                                        comm_no |-> wsTh.comm_no,
                                        description |-> wsTh.desc]>>]
    /\ wsTh' = [pc |-> "idle", cmd |-> 0, comm_no |-> 0, desc |-> ""]
    /\ CallerSeesFrame
    /\ actor' = "caller"
    /\ UNCHANGED <<engine, aged, io, transport, conn, heap, serialTh, hist, issued, terminal>>

---------------------------------------------------------------------------
(* VMCConnection: the serial thread (serial_loop -> _process_buffer ->       *)
(* _handle_packet), one action per lock section, serial write or WebSocket  *)
(* message                                                                  *)

\* the serial thread's locals between frames
SerialIdle == [pc |-> "idle", state |-> "idle", c |-> 0, frame |-> <<>>]

\* observation of the caller once the serial thread has acted
SerialSeesCaller == enq' = IF wsTh.pc = "idle" THEN NoEnqueue ELSE enq

\* the handler returns to _process_buffer: its locals are dropped
ConnReturn ==
    /\ serialTh' = SerialIdle
    /\ cur' = [cur EXCEPT !.done = TRUE]

\* _send_ack (lines 321-334) with the given reason and log flag: the frames
\* then written and the messages then sent
ConnSendAckTx(ok) == IF ok THEN <<build_packet(CMD_ACK, <<>>)>> ELSE <<>>

ConnSendAckEv(ok, log) ==
    IF ~ok THEN <<Log("Serial write error (ACK)")>>
    ELSE IF log THEN <<Log("Sent ACK")>> ELSE <<>>

\* _handle_poll lines 373-375: the snapshot under state_lock
ConnHandlePoll ==
    /\ engine = A
    /\ serialTh.pc = "idle"
    /\ serialTh' = [pc |-> "poll_branch", state |-> conn.state, c |-> conn.current_cmd,
                    frame |-> <<>>]
    /\ cur' = [op |-> "poll", cmd |-> CMD_POLL, payload |-> <<>>, enqs |-> Len(issued),
               pre |-> ConnSnap(conn, heap), done |-> FALSE]
    /\ tx' = <<>>
    /\ ev' = <<>>
    /\ hist' = IF conn.state = "idle" THEN HistNew
                ELSE HistAfter(hist, "poll", conn.state, <<>>, FALSE)
    /\ SerialSeesCaller
    /\ actor' = "serial"
    /\ UNCHANGED <<engine, aged, transport, conn, heap, wsTh, issued, terminal>>

\* _handle_poll lines 377, 382, 383, 399: the branch taken on the snapshot; the
\* retry count is read from the dict c refers to, without the lock
ConnPollBranch ==
    /\ engine = A
    /\ serialTh.pc = "poll_branch"
    /\ serialTh' = [serialTh EXCEPT !.pc =
          IF serialTh.state = "idle" \/ serialTh.c = 0 THEN "idle_ack"
          ELSE IF serialTh.state = "waiting_ack"
               THEN IF heap[serialTh.c][1].retries < MAX_RETRIES
                    THEN "send_lock" ELSE "timeout_ack"
               ELSE "finish_ack"]
    /\ SerialSeesCaller
    /\ actor' = "serial"
    /\ UNCHANGED <<engine, aged, io, transport, conn, heap, wsTh, cur, tx, ev, hist, issued, terminal>>

\* faulty variant of the idle branch: the poll is left unanswered
ConnPollIdleAck_Quiet(ok) ==
    /\ engine = A
    /\ serialTh.pc = "idle_ack"
    /\ tx' = tx
    /\ ev' = ev
    /\ hist' = HistAfter(hist, "", "", <<>>, FALSE)
    /\ ConnReturn
    /\ heap' = Collect(heap, {conn.current_cmd})
    /\ SerialSeesCaller
    /\ actor' = "serial"
    /\ UNCHANGED <<engine, aged, io, transport, conn, wsTh, issued, terminal>>

\* _handle_poll line 379: _send_ack(log=False), then return
ConnPollIdleAck(ok) ==
    /\ engine = A
    /\ serialTh.pc = "idle_ack"
    /\ tx' = tx \o ConnSendAckTx(ok)
    /\ ev' = ev \o ConnSendAckEv(ok, FALSE)
    /\ hist' = HistAfter(hist, "", "", <<>>, ~ok)
    /\ ConnReturn
    /\ heap' = Collect(heap, {conn.current_cmd})
    /\ SerialSeesCaller
    /\ actor' = "serial"
    /\ UNCHANGED <<engine, aged, io, transport, conn, wsTh, issued, terminal>>

\* _send_current_command lines 338-344: under state_lock, re-read current_cmd,
\* build the frame, count the retry
ConnSendLock ==
    /\ engine = A
    /\ serialTh.pc = "send_lock"
    /\ IF conn.current_cmd = 0
       THEN /\ ConnReturn
            /\ heap' = Collect(heap, {conn.current_cmd})
       ELSE LET c == heap[conn.current_cmd][1] IN
            /\ serialTh' = [serialTh EXCEPT !.pc = "send_write", !.c = conn.current_cmd,
                               !.frame = build_packet(c.cmd, <<c.comm>> \o c.text)]
            /\ heap' = [heap EXCEPT ![conn.current_cmd] = <<[c EXCEPT !.retries = @ + 1]>>]
            /\ cur' = cur
    /\ SerialSeesCaller
    /\ actor' = "serial"
    /\ UNCHANGED <<engine, aged, io, transport, conn, wsTh, tx, ev, hist, issued, terminal>>

\* _send_current_command lines 346-350: the write; a failure is logged and ends it
ConnSendWrite(ok) ==
    /\ engine = A
    /\ serialTh.pc = "send_write"
    /\ IF ok
       THEN /\ tx' = Append(tx, serialTh.frame)
            /\ ev' = ev
            /\ serialTh' = [serialTh EXCEPT !.pc = "send_ws"]
            /\ cur' = cur
            /\ heap' = heap
       ELSE /\ tx' = tx
            /\ ev' = Append(ev, Log("Serial write error (CMD)"))
            /\ ConnReturn
            /\ heap' = Collect(heap, {conn.current_cmd})
    /\ hist' = HistAfter(hist, "", "", IF ok THEN <<serialTh.frame>> ELSE <<>>, ~ok)
    /\ SerialSeesCaller
    /\ actor' = "serial"
    /\ UNCHANGED <<engine, aged, io, transport, conn, wsTh, issued, terminal>>

\* _send_current_command lines 352-364: the log line and the command_sent message
ConnSendNotify ==
    /\ engine = A
    /\ serialTh.pc = "send_ws"
    /\ LET c == heap[serialTh.c][1] IN
       ev' = ev \o <<Log("TX CMD"),
                     [event |-> "command_sent", cmd |-> c.cmd, comm_no |-> c.comm,
                      retries |-> c.retries, raw |-> serialTh.frame,
                      description |-> c.desc]>>
    /\ ConnReturn
    /\ heap' = Collect(heap, {conn.current_cmd})
    /\ SerialSeesCaller
    /\ actor' = "serial"
    /\ UNCHANGED <<engine, aged, io, transport, conn, wsTh, tx, hist, issued, terminal>>

\* _handle_poll line 387: _send_ack("command timeout, no ACK", log=True)
ConnTimeoutAck(ok) ==
    /\ engine = A
    /\ serialTh.pc = "timeout_ack"
    /\ tx' = tx \o ConnSendAckTx(ok)
    /\ ev' = ev \o ConnSendAckEv(ok, TRUE)
    /\ hist' = HistAfter(hist, "", "", <<>>, ~ok)
    /\ serialTh' = [serialTh EXCEPT !.pc = "timeout_clear"]
    /\ SerialSeesCaller
    /\ actor' = "serial"
    /\ UNCHANGED <<engine, aged, io, transport, conn, heap, wsTh, cur, issued, terminal>>

\* faulty variant of lines 388-391: the command is marked done, the slot and the
\* state are left as they were
ConnTimeoutClear_NotCleared ==
    /\ engine = A
    /\ serialTh.pc = "timeout_clear"
    /\ heap' = [heap EXCEPT ![serialTh.c] = <<[@[1] EXCEPT !.done = TRUE]>>]
    /\ conn' = conn
    /\ serialTh' = [serialTh EXCEPT !.pc = "timeout_ws"]
    /\ SerialSeesCaller
    /\ actor' = "serial"
    /\ UNCHANGED <<engine, aged, io, transport, wsTh, cur, tx, ev, hist, issued, terminal>>

\* _handle_poll lines 388-391: under state_lock, mark done and clear
ConnTimeoutClear ==
    /\ engine = A
    /\ serialTh.pc = "timeout_clear"
    /\ heap' = [heap EXCEPT ![serialTh.c] = <<[@[1] EXCEPT !.done = TRUE]>>]
    /\ conn' = [conn EXCEPT !.state = "idle", !.current_cmd = 0]
    /\ serialTh' = [serialTh EXCEPT !.pc = "timeout_ws"]
    /\ SerialSeesCaller
    /\ actor' = "serial"
    /\ UNCHANGED <<engine, aged, io, transport, wsTh, cur, tx, ev, hist, issued, terminal>>

\* _handle_poll lines 392-397: the command_timeout message
ConnTimeoutNotify ==
    /\ engine = A
    /\ serialTh.pc = "timeout_ws"
    /\ LET c == heap[serialTh.c][1] IN
       /\ ev' = Append(ev, [event |-> "command_timeout", cmd |-> c.cmd, comm_no |-> c.comm,
                            description |-> c.desc])
       /\ terminal' = Credit(terminal, issued, c.comm, "timeout")
    /\ ConnReturn
    /\ heap' = Collect(heap, {conn.current_cmd})
    /\ SerialSeesCaller
    /\ actor' = "serial"
    /\ UNCHANGED <<engine, aged, io, transport, conn, wsTh, tx, hist, issued>>

\* _handle_poll line 401: _send_ack("command finished", log=True)
ConnFinishAck(ok) ==
    /\ engine = A
    /\ serialTh.pc = "finish_ack"
    /\ tx' = tx \o ConnSendAckTx(ok)
    /\ ev' = ev \o ConnSendAckEv(ok, TRUE)
    /\ hist' = HistAfter(hist, "", "", <<>>, ~ok)
    /\ serialTh' = [serialTh EXCEPT !.pc = "finish_clear"]
    /\ SerialSeesCaller
    /\ actor' = "serial"
    /\ UNCHANGED <<engine, aged, io, transport, conn, heap, wsTh, cur, issued, terminal>>

\* faulty variant of lines 402-405: current_cmd is not cleared
ConnFinishClear_KeepsCmd ==
    /\ engine = A
    /\ serialTh.pc = "finish_clear"
    /\ heap' = [heap EXCEPT ![serialTh.c] = <<[@[1] EXCEPT !.done = TRUE]>>]
    /\ conn' = [conn EXCEPT !.state = "idle"]
    /\ serialTh' = [serialTh EXCEPT !.pc = "finish_ws"]
    /\ SerialSeesCaller
    /\ actor' = "serial"
    /\ UNCHANGED <<engine, aged, io, transport, wsTh, cur, tx, ev, hist, issued, terminal>>

\* _handle_poll lines 402-405: under state_lock, mark done and clear
ConnFinishClear ==
    /\ engine = A
    /\ serialTh.pc = "finish_clear"
    /\ heap' = [heap EXCEPT ![serialTh.c] = <<[@[1] EXCEPT !.done = TRUE]>>]
    /\ conn' = [conn EXCEPT !.state = "idle", !.current_cmd = 0]
    /\ serialTh' = [serialTh EXCEPT !.pc = "finish_ws"]
    /\ SerialSeesCaller
    /\ actor' = "serial"
    /\ UNCHANGED <<engine, aged, io, transport, wsTh, cur, tx, ev, hist, issued, terminal>>

\* _handle_poll lines 406-411: the command_finished message
ConnFinishNotify ==
    /\ engine = A
    /\ serialTh.pc = "finish_ws"
    /\ LET c == heap[serialTh.c][1] IN
       /\ ev' = Append(ev, [event |-> "command_finished", cmd |-> c.cmd, comm_no |-> c.comm,
                            description |-> c.desc])
       /\ terminal' = Credit(terminal, issued, c.comm, "finished")
    /\ ConnReturn
    /\ heap' = Collect(heap, {conn.current_cmd})
    /\ SerialSeesCaller
    /\ actor' = "serial"
    /\ UNCHANGED <<engine, aged, io, transport, conn, wsTh, tx, hist, issued>>

\* _handle_ack_from_vmc lines 414-416: the snapshot under state_lock
ConnHandleAck ==
    /\ engine = A
    /\ serialTh.pc = "idle"
    /\ serialTh' = [pc |-> "ack_ws", state |-> conn.state, c |-> conn.current_cmd,
                    frame |-> <<>>]
    /\ cur' = [op |-> "ack", cmd |-> CMD_ACK, payload |-> <<>>, enqs |-> Len(issued),
               pre |-> ConnSnap(conn, heap), done |-> FALSE]
    /\ tx' = <<>>
    /\ ev' = <<>>
    /\ hist' = IF conn.state = "idle" THEN HistNew ELSE hist
    /\ SerialSeesCaller
    /\ actor' = "serial"
    /\ UNCHANGED <<engine, aged, transport, conn, heap, wsTh, issued, terminal>>

\* _handle_ack_from_vmc lines 418-422: the vmc_ack message
ConnAckNotify ==
    /\ engine = A
    /\ serialTh.pc = "ack_ws"
    /\ ev' = Append(ev, [event |-> "vmc_ack", cmd |-> CMD_ACK,
                         raw |-> build_packet(CMD_ACK, <<>>)])
    /\ serialTh' = [serialTh EXCEPT !.pc = "ack_branch"]
    /\ SerialSeesCaller
    /\ actor' = "serial"
    /\ UNCHANGED <<engine, aged, io, transport, conn, heap, wsTh, cur, tx, hist, issued, terminal>>

\* _handle_ack_from_vmc lines 424, 425, 429, 430: the branch on the snapshot
ConnAckBranch ==
    /\ engine = A
    /\ serialTh.pc = "ack_branch"
    /\ IF serialTh.c # 0 /\ serialTh.state = "waiting_ack"
       THEN /\ ev' = Append(ev, Log("ACK from VMC for cmd"))
            /\ serialTh' = [serialTh EXCEPT !.pc = "ack_lock"]
            /\ cur' = cur
            /\ heap' = heap
       ELSE /\ ev' = Append(ev, Log("ACK from VMC but no command waiting_ack"))
            /\ ConnReturn
            /\ heap' = Collect(heap, {conn.current_cmd})
    /\ SerialSeesCaller
    /\ actor' = "serial"
    /\ UNCHANGED <<engine, aged, io, transport, conn, wsTh, tx, hist, issued, terminal>>

\* faulty variant of lines 426-428: the command is marked acked, the state is left
ConnAckLock_StateLeft ==
    /\ engine = A
    /\ serialTh.pc = "ack_lock"
    /\ conn' = conn
    /\ ConnReturn
    /\ heap' = Collect([heap EXCEPT ![serialTh.c] = <<[@[1] EXCEPT !.acked = TRUE]>>],
                       {conn.current_cmd})
    /\ SerialSeesCaller
    /\ actor' = "serial"
    /\ UNCHANGED <<engine, aged, io, transport, wsTh, tx, ev, hist, issued, terminal>>

\* _handle_ack_from_vmc lines 426-428: under state_lock, mark acked
ConnAckLock ==
    /\ engine = A
    /\ serialTh.pc = "ack_lock"
    /\ conn' = [conn EXCEPT !.state = "waiting_data"]
    /\ ConnReturn
    /\ heap' = Collect([heap EXCEPT ![serialTh.c] = <<[@[1] EXCEPT !.acked = TRUE]>>],
                       {conn.current_cmd})
    /\ SerialSeesCaller
    /\ actor' = "serial"
    /\ UNCHANGED <<engine, aged, io, transport, wsTh, tx, ev, hist, issued, terminal>>

\* _handle_data_from_vmc line 438: _send_ack("data packet", log=False)
ConnHandleData(cmd, payload, ok) ==
    /\ engine = A
    /\ serialTh.pc = "idle"
    /\ serialTh' = [SerialIdle EXCEPT !.pc = "data_ws"]
    /\ cur' = [op |-> "data", cmd |-> cmd, payload |-> payload, enqs |-> Len(issued),
               pre |-> ConnSnap(conn, heap), done |-> FALSE]
    /\ tx' = ConnSendAckTx(ok)
    /\ ev' = ConnSendAckEv(ok, FALSE)
    /\ hist' = IF conn.state = "idle" THEN HistNew
                ELSE HistAfter(hist, "data", conn.state, <<>>, ~ok)
    /\ SerialSeesCaller
    /\ actor' = "serial"
    /\ UNCHANGED <<engine, aged, transport, conn, heap, wsTh, issued, terminal>>

\* faulty variant of lines 440-498: the data frame is taken for the end of the
\* transaction
ConnDataNotify_EndsTransaction ==
    /\ engine = A
    /\ serialTh.pc = "data_ws"
    /\ ev' = Append(ev, DataEvent(cur.cmd, cur.payload))
    /\ ConnReturn
    /\ conn' = [conn EXCEPT !.state = "idle", !.current_cmd = 0]
    /\ heap' = HeapNew
    /\ SerialSeesCaller
    /\ actor' = "serial"
    /\ UNCHANGED <<engine, aged, io, transport, wsTh, tx, hist, issued, terminal>>

\* _handle_data_from_vmc lines 440-498: the decoded message
ConnDataNotify ==
    /\ engine = A
    /\ serialTh.pc = "data_ws"
    /\ ev' = Append(ev, DataEvent(cur.cmd, cur.payload))
    /\ ConnReturn
    /\ SerialSeesCaller
    /\ actor' = "serial"
    /\ UNCHANGED <<engine, aged, io, transport, conn, heap, wsTh, tx, hist, issued, terminal>>

---------------------------------------------------------------------------
(* The system *)

\* the frames the VMC sends
Frames == {[cmd |-> CMD_POLL, payload |-> <<>>], [cmd |-> CMD_ACK, payload |-> <<>>]}
              \cup DataFrames

Next ==
    \/ \E c \in Commands : TransportSendCommand(c)
    \/ \E f \in Frames, ok \in WriteOutcomes :
          TransportReceive(f.cmd, f.payload, ok) /\ UNCHANGED io
    \/ \E c \in Commands : ConnQueueCommand(c)
    \/ ConnQueueNotify
    \/ ConnHandlePoll /\ UNCHANGED io
    \/ ConnPollBranch
    \/ \E ok \in WriteOutcomes : ConnPollIdleAck(ok)
    \/ ConnSendLock
    \/ \E ok \in WriteOutcomes : ConnSendWrite(ok)
    \/ ConnSendNotify
    \/ \E ok \in WriteOutcomes : ConnTimeoutAck(ok)
    \/ ConnTimeoutClear
    \/ ConnTimeoutNotify
    \/ \E ok \in WriteOutcomes : ConnFinishAck(ok)
    \/ ConnFinishClear
    \/ ConnFinishNotify
    \/ ConnHandleAck /\ UNCHANGED io
    \/ ConnAckNotify
    \/ ConnAckBranch
    \/ ConnAckLock
    \/ \E f \in DataFrames, ok \in WriteOutcomes :
          ConnHandleData(f.cmd, f.payload, ok) /\ UNCHANGED io
    \/ ConnDataNotify

Spec == Init /\ [][Next]_vars

---------------------------------------------------------------------------
(* The system with every serial write succeeding, polls arriving for ever and *)
(* the serial thread running for ever                                         *)

\* the steps of VMCConnection's serial thread that continue the handling of a frame
ConnHandlerStep ==
    \/ ConnPollBranch
    \/ ConnPollIdleAck(TRUE)
    \/ ConnSendLock
    \/ ConnSendWrite(TRUE)
    \/ ConnSendNotify
    \/ ConnTimeoutAck(TRUE)
    \/ ConnTimeoutClear
    \/ ConnTimeoutNotify
    \/ ConnFinishAck(TRUE)
    \/ ConnFinishClear
    \/ ConnFinishNotify
    \/ ConnAckNotify
    \/ ConnAckBranch
    \/ ConnAckLock
    \/ ConnDataNotify

LiveNext ==
    \/ \E c \in Commands : TransportSendCommand(c)
    \/ \E f \in Frames : TransportReceive(f.cmd, f.payload, TRUE) /\ UNCHANGED io
    \/ \E c \in Commands : ConnQueueCommand(c)
    \/ ConnQueueNotify
    \/ ConnHandlePoll /\ UNCHANGED io
    \/ ConnHandleAck /\ UNCHANGED io
    \/ \E f \in DataFrames : ConnHandleData(f.cmd, f.payload, TRUE) /\ UNCHANGED io
    \/ ConnHandlerStep

\* the VMC polls periodically and the serial link is read in order, so a poll is
\* handled again and again; serial_loop / _loop never stop taking steps
LiveSpec ==
    /\ Init
    /\ [][LiveNext]_vars
    /\ WF_vars(TransportReceive(CMD_POLL, <<>>, TRUE) /\ UNCHANGED io)
    /\ SF_vars(ConnHandlePoll /\ UNCHANGED io)
    /\ WF_vars(ConnHandlerStep)

---------------------------------------------------------------------------
(* VMCConnection.handle_ws_message (src/app.py 139-166) *)

\* JSON values of the fields of a request: a number, a string, null
JInt(n) == [t |-> "int", n |-> n]
JStr(s) == [t |-> "str", s |-> s]
JNull == [t |-> "null"]

\* a WebSocket text: not JSON; JSON that is no object ([] or null); or an object,
\* given as the record of its fields
NotJson == [json |-> "invalid"]
JsonArray == [json |-> "array"]
JsonNull == [json |-> "null"]
JsonObject(fields) == [json |-> "object", obj |-> fields]

\* the outcome of handle_ws_message up to the call of _queue_command: that call,
\* an error event sent, or an exception that leaves handle_ws_message
Queue(cmd, text, desc) == [kind |-> "queue", cmd |-> cmd, text |-> text, desc |-> desc]
ErrorEvent(error) == [kind |-> "error", error |-> error]
Escapes(exception) == [kind |-> "raise", error |-> exception]

\* int(data[field]): the number, or the exception raised ("" when none)
IntFieldError(obj, field) ==
    IF field \notin DOMAIN obj THEN "KeyError"
    ELSE IF obj[field].t = "null" THEN "TypeError"
    ELSE IF obj[field].t = "str" /\ obj[field].s # "12" THEN "ValueError"
    ELSE ""

IntField(obj, field) == IF obj[field].t = "int" THEN obj[field].n ELSE 12

\* n.to_bytes(width, "big") raises OverflowError
Overflows(n, width) == n < 0 \/ n >= 256 ^ width

\* n.to_bytes(width, "big")
ToBytes(n, width) == [i \in 1..width |-> (n \div (256 ^ (width - i))) % 256]

\* data.get(field, default) tested for truth, for the flags of direct_vend
Flag(obj, field, default) ==
    IF field \notin DOMAIN obj THEN default
    ELSE IF obj[field].t = "int" THEN obj[field].n # 0
    ELSE IF obj[field].t = "str" THEN obj[field].s # ""
    ELSE FALSE

\* _ws_direct_vend (lines 201-216)
ws_direct_vend(obj) ==
    IF IntFieldError(obj, "selection") # ""
    THEN ErrorEvent(IntFieldError(obj, "selection"))
    ELSE LET selection == IntField(obj, "selection")
             use_drop == IF Flag(obj, "use_drop_sensor", TRUE) THEN 1 ELSE 0
             use_elev == IF Flag(obj, "use_elevator", TRUE) THEN 1 ELSE 0
             cart == IF Flag(obj, "shopping_cart", FALSE) THEN 1 ELSE 0
         IN  IF Overflows(selection, 2) THEN ErrorEvent("OverflowError")
             ELSE Queue(CMD_DIRECT_VEND,
                        <<use_drop, use_elev>> \o ToBytes(selection, 2) \o <<cart>>,
                        "direct_vend")

\* _ws_buy (lines 218-226)
ws_buy(obj) ==
    IF IntFieldError(obj, "selection") # ""
    THEN ErrorEvent(IntFieldError(obj, "selection"))
    ELSE LET selection == IntField(obj, "selection") IN
         IF Overflows(selection, 2) THEN ErrorEvent("OverflowError")
         ELSE Queue(CMD_SELECT_BUY, ToBytes(selection, 2), "buy")

\* _ws_set_price (lines 228-238)
ws_set_price(obj) ==
    IF IntFieldError(obj, "selection") # ""
    THEN ErrorEvent(IntFieldError(obj, "selection"))
    ELSE IF IntFieldError(obj, "price") # ""
    THEN ErrorEvent(IntFieldError(obj, "price"))
    ELSE LET selection == IntField(obj, "selection")
             price == IntField(obj, "price")
         IN  IF Overflows(selection, 2) \/ Overflows(price, 4)
             THEN ErrorEvent("OverflowError")
             ELSE Queue(CMD_SET_PRICE, ToBytes(selection, 2) \o ToBytes(price, 4),
                        "set_price")

\* _ws_get_slots (lines 240-250)
ws_get_slots(obj) == Queue(CMD_INFO_SYNC, <<>>, "get_slots")

\* `not t` for t = data.get("type")
TypeIsFalsy(obj) ==
    \/ "type" \notin DOMAIN obj
    \/ obj.type.t = "null"
    \/ obj.type.t = "str" /\ obj.type.s = ""
    \/ obj.type.t = "int" /\ obj.type.n = 0

\* handle_ws_message (lines 139-166): json.loads in a try; data.get("type") outside
\* of any try, so a JSON value that is no object raises AttributeError out of the
\* method; the dispatch in a try that turns every exception into an error event
handle_ws_message(m) ==
    IF m.json = "invalid" THEN ErrorEvent("invalid JSON")
    ELSE IF m.json # "object" THEN Escapes("AttributeError")
    ELSE IF TypeIsFalsy(m.obj) THEN ErrorEvent("missing 'type'")
    ELSE IF m.obj.type.t # "str" THEN ErrorEvent("unknown type")
    ELSE IF m.obj.type.s = "direct_vend" THEN ws_direct_vend(m.obj)
    ELSE IF m.obj.type.s = "buy" THEN ws_buy(m.obj)
    ELSE IF m.obj.type.s = "set_price" THEN ws_set_price(m.obj)
    ELSE IF m.obj.type.s = "get_slots" THEN ws_get_slots(m.obj)
    ELSE ErrorEvent("unknown type")

\* the texts a client sends: the two requests of Commands, and requests that are
\* rejected before _queue_command
WsMessages ==
    { JsonObject([type |-> JStr("buy"), selection |-> JInt(12)]),
      JsonObject([type |-> JStr("get_slots")]),
      NotJson,
      JsonArray,
      JsonNull,
      JsonObject([selection |-> JInt(12)]),
      JsonObject([type |-> JStr("reboot")]),
      JsonObject([type |-> JStr("buy")]),
      JsonObject([type |-> JStr("buy"), selection |-> JInt(70000)]),
      JsonObject([type |-> JStr("buy"), selection |-> JInt(0 - 1)]),
      JsonObject([type |-> JStr("buy"), selection |-> JStr("twelve")]),
      JsonObject([type |-> JStr("set_price"), selection |-> JInt(12)]),
      JsonObject([type |-> JStr("direct_vend"), selection |-> JInt(70000)]) }

\* what a request that did not reach _queue_command left: the request, the
\* exception that left handle_ws_message ("none" when none did), the messages sent
\* to the WebSocket, and whether state, pending command, counter and write history
\* are as before
WsIo(m, raised, sent, kept) ==
    [fn |-> "ws", msg |-> m, raised |-> raised, ev |-> sent, kept |-> kept]

\* handle_ws_message on the WebSocket thread, for a request that does not reach
\* _queue_command (one that does is ConnQueueCommand): nothing of the engine is
\* touched
ConnWsMessage(m) ==
    /\ engine = A
    /\ wsTh.pc = "idle"
    /\ io = NoIo
    /\ LET o == handle_ws_message(m) IN
          /\ o.kind # "queue"
          /\ UNCHANGED <<engine, aged, transport, conn, heap, serialTh, enq, hist,
                         issued, terminal>>
          /\ wsTh' = [wsTh EXCEPT !.pc = IF o.kind = "raise" THEN "raised" ELSE "replied"]
          /\ io' = WsIo(m,
                        IF o.kind = "raise" THEN o.error ELSE "none",
                        <<Log("WS message received")>>
                           \o (IF o.kind = "error"
                               THEN <<[event |-> "error", error |-> o.error]>>
                               ELSE <<>>),
                        ConnSnap(conn', heap') = ConnSnap(conn, heap) /\ hist' = hist)
          /\ CallerSeesFrame
          /\ actor' = "caller"

\* handle_ws_message is left: by return, and vmc_ws waits for the next request; or
\* by the exception, which ends vmc_ws (lines 553-561 catch nothing around the
\* call): no further request is handled, the serial thread runs on
ConnWsReturn ==
    /\ engine = A
    /\ wsTh.pc \in {"replied", "raised"}
    /\ wsTh' = [wsTh EXCEPT !.pc = IF wsTh.pc = "raised" THEN "dead" ELSE "idle"]
    /\ io' = NoIo
    /\ actor' = "caller"
    /\ UNCHANGED <<engine, aged, transport, conn, heap, serialTh, enq, hist, issued,
                   terminal, cur, tx, ev>>

\* the requests of a client and the frames of the VMC; the serial thread's next
\* step is taken once the WebSocket thread has left a rejected request
WsNext ==
    \/ \E m \in WsMessages : ConnWsMessage(m)
    \/ ConnWsReturn
    \/ io = NoIo /\ Next

WsSpec == Init /\ [][WsNext]_vars

---------------------------------------------------------------------------
(* The serial thread from the bytes on: read, _process_buffer, the handlers *)

\* bytes.index(bytes([STX1, STX2])) + 1, or 0 when the pair does not occur
IndexOfStx(buffer) ==
    LET at == {i \in 1..(Len(buffer) - 1) : buffer[i] = STX1 /\ buffer[i + 1] = STX2}
    IN  IF at = {} THEN 0 ELSE CHOOSE i \in at : \A j \in at : i <= j

\* the outcome of one pass of a parser's loop: "wait" (return, more bytes are
\* needed), "skip" (bytes before the frame start dropped), "frame" (a
\* checksum-valid frame, handed to the engine) or "bad" (a frame dropped for its
\* checksum); buffer: what stays buffered
Parsed(kind, cmd, payload, buffer) ==
    [kind |-> kind, cmd |-> cmd, payload |-> payload, buffer |-> buffer]

\* faulty variant of the pass: the checksum is computed and not compared
TransportParseStep_NoCheck(buffer) ==
    IF Len(buffer) < 5 THEN Parsed("wait", 0, <<>>, buffer)
    ELSE IF buffer[1] # STX1 \/ buffer[2] # STX2
         THEN Parsed("skip", 0, <<>>, Tail(buffer))
         ELSE LET frame_len == 5 + buffer[4] IN
              IF Len(buffer) < frame_len THEN Parsed("wait", 0, <<>>, buffer)
              ELSE Parsed("frame", buffer[3], SubSeq(buffer, 5, frame_len - 1),
                          SubSeq(buffer, frame_len + 1, Len(buffer)))

\* VMCTransport._process_buffer (lines 65-91): one pass of the while loop
TransportParseStep(buffer) ==
    IF Len(buffer) < 5 THEN Parsed("wait", 0, <<>>, buffer)
    ELSE IF buffer[1] # STX1 \/ buffer[2] # STX2
         THEN Parsed("skip", 0, <<>>, Tail(buffer))
         ELSE LET cmd == buffer[3]
                  length == buffer[4]
                  frame_len == 5 + length
              IN  IF Len(buffer) < frame_len THEN Parsed("wait", 0, <<>>, buffer)
                  ELSE LET frame == SubSeq(buffer, 1, frame_len)
                           payload == SubSeq(frame, 5, frame_len - 1)
                           received_xor == frame[frame_len]
                           rest == SubSeq(buffer, frame_len + 1, Len(buffer))
                       IN  IF XorAll(SubSeq(frame, 1, frame_len - 1)) = received_xor
                           THEN Parsed("frame", cmd, payload, rest)
                           ELSE Parsed("bad", cmd, <<>>, rest)

\* faulty variant of the pass: a frame that fails the checksum is left in the
\* buffer but for its two start bytes
ConnParseStep_KeepsBadFrame(buffer) ==
    IF Len(buffer) < 5 THEN Parsed("wait", 0, <<>>, buffer)
    ELSE LET start == IndexOfStx(buffer) IN
         IF start = 0 THEN Parsed("wait", 0, <<>>, <<>>)
         ELSE LET b == SubSeq(buffer, start, Len(buffer)) IN
              IF Len(b) < 5 THEN Parsed("wait", 0, <<>>, b)
              ELSE LET frame_len == 2 + 1 + 1 + b[4] + 1 IN
                   IF Len(b) < frame_len THEN Parsed("wait", 0, <<>>, b)
                   ELSE IF XorAll(SubSeq(b, 1, frame_len - 1)) # b[frame_len]
                        THEN Parsed("bad", b[3], <<>>, SubSeq(b, 3, Len(b)))
                        ELSE Parsed("frame", b[3], SubSeq(b, 5, frame_len - 1),
                                    SubSeq(b, frame_len + 1, Len(b)))

\* VMCConnection._process_buffer (lines 271-305): one pass of the while loop
ConnParseStep(buffer) ==
    IF Len(buffer) < 5 THEN Parsed("wait", 0, <<>>, buffer)
    ELSE LET start == IndexOfStx(buffer) IN
         IF start = 0 THEN Parsed("wait", 0, <<>>, <<>>)
         ELSE LET b == SubSeq(buffer, start, Len(buffer)) IN
              IF Len(b) < 5 THEN Parsed("wait", 0, <<>>, b)
              ELSE LET cmd == b[3]
                       length == b[4]
                       frame_len == 2 + 1 + 1 + length + 1
                   IN  IF Len(b) < frame_len THEN Parsed("wait", 0, <<>>, b)
                       ELSE LET frame == SubSeq(b, 1, frame_len)
                                rest == SubSeq(b, frame_len + 1, Len(b))
                            IN  IF XorAll(SubSeq(frame, 1, frame_len - 1)) # frame[frame_len]
                                THEN Parsed("bad", cmd, <<>>, rest)
                                ELSE Parsed("frame", cmd, SubSeq(frame, 5, frame_len - 1),
                                            rest)

\* how many bytes one read returns: one, two, or all that have arrived
ReadSizes == {1, 2, Len(io.stream)}

\* --- what the VMC puts on the wire ---

\* payload bytes of a frame on the wire, start bytes among them
WireBytes == {0, STX1, STX2}

WirePayloads ==
    UNION {[1..n -> WireBytes] : n \in 0..MaxPayloadLen}

\* command ids on the wire: poll, ack, and a data frame whose id is a start byte
WireCmds == {CMD_POLL, CMD_ACK, STX1}

\* a frame as built: by build_packet (seq = 0), or by build_frame with the sequence
\* byte seq put before the payload; possibly with one payload bit flipped (fault
\* "flip": bit `bit` of payload byte `at`), or with a trailing byte that disagrees
\* with the checksum (fault "sum": the checksum xor-ed with `bit`)
WireItem(cmd, payload, seq, fault, at, bit) ==
    [cmd |-> cmd, payload |-> payload, seq |-> seq, fault |-> fault, at |-> at,
     bit |-> bit]

\* the payload that follows the length byte
WirePayload(item) ==
    IF item.seq = 0 THEN item.payload ELSE <<item.seq>> \o item.payload

\* the frame as the builder makes it
Built(item) ==
    IF item.seq = 0 THEN build_packet(item.cmd, item.payload)
    ELSE build_frame(item.cmd, item.seq, item.payload)

\* the bytes that arrive
OnWire(item) ==
    LET f == Built(item) IN
    IF item.fault = "flip" THEN [f EXCEPT ![4 + item.at] = BitXor(@, 2 ^ item.bit)]
    ELSE IF item.fault = "sum" THEN [f EXCEPT ![Len(f)] = BitXor(@, item.bit)]
    ELSE IF item.fault = "garbage" THEN item.payload
    ELSE f

GoodItems ==
    {WireItem(c, p, s, "none", 0, 0) : c \in WireCmds, p \in WirePayloads, s \in {0, 7}}

FlippedItems ==
    UNION {{WireItem(g.cmd, g.payload, g.seq, "flip", at, bit) :
               at \in 1..Len(WirePayload(g)), bit \in 0..7} : g \in GoodItems}

\* differences between the trailing byte and the checksum
SumFaults == {1, 128, 255}

BadSumItems ==
    {WireItem(g.cmd, g.payload, g.seq, "sum", 0, d) : g \in GoodItems, d \in SumFaults}

\* the frames that follow a dropped one in the stream
Followers ==
    {WireItem(c, <<>>, 0, "none", 0, 0) : c \in {CMD_POLL, CMD_ACK}}
       \cup {WireItem(STX1, <<STX2>>, 0, "none", 0, 0)}

\* bytes of line noise: 1..MaxGarbageLen bytes in which no 0xFA is followed by 0xFB
Garbage ==
    {g \in UNION {[1..n -> WireBytes] : n \in 1..MaxGarbageLen} :
        \A i \in 1..(Len(g) - 1) : ~(g[i] = STX1 /\ g[i + 1] = STX2)}

\* noise on the wire: the bytes as they are (fault "garbage")
GarbageItems == {WireItem(0, g, 0, "garbage", 0, 0) : g \in Garbage}

\* the streams read: one frame; a frame with a bad checksum and a good one; noise
\* and a good frame
WireStreams ==
    {<<i>> : i \in GoodItems \cup FlippedItems \cup BadSumItems}
       \cup {<<b, g>> : b \in BadSumItems, g \in Followers}
       \cup {<<n, g>> : n \in GarbageItems, g \in Followers}

RECURSIVE WireOf(_)
WireOf(items) == IF items = <<>> THEN <<>> ELSE OnWire(Head(items)) \o WireOf(Tail(items))

\* --- the engine the bytes reach ---

\* the pending command of the engines that are not idle: buy selection=12, number 1
ParsePending(retries) ==
    [cmd_id |-> CMD_SELECT_BUY, comm_no |-> 1, payload |-> <<0, 12>>,
     retries |-> retries, desc |-> "buy selection=12"]

\* VMCTransport: idle after construction; after send_command and `retries` polls;
\* after send_command, a poll and an ack
ParseTransports ==
    {TransportNew}
      \cup {[state |-> "waiting_ack", next_comm_no |-> 2,
             pending_cmd |-> <<ParsePending(r)>>] : r \in {0, MAX_RETRIES}}
      \cup {[state |-> "waiting_data", next_comm_no |-> 2,
             pending_cmd |-> <<ParsePending(1)>>]}

ParseDict(retries, acked) ==
    [cmd |-> CMD_SELECT_BUY, text |-> <<0, 12>>, comm |-> 1, retries |-> retries,
     acked |-> acked, done |-> FALSE, desc |-> "buy selection=12"]

\* VMCConnection in the same four situations: the fields and the heap
ParseConns ==
    {[conn |-> ConnNew, heap |-> HeapNew]}
      \cup {[conn |-> [state |-> "waiting_ack", current_cmd |-> 1, next_comm |-> 2],
             heap |-> [HeapNew EXCEPT ![1] = <<ParseDict(r, FALSE)>>]] :
               r \in {0, MAX_RETRIES}}
      \cup {[conn |-> [state |-> "waiting_data", current_cmd |-> 1, next_comm |-> 2],
             heap |-> [HeapNew EXCEPT ![1] = <<ParseDict(1, TRUE)>>]]}

\* the bytes of the stream not read yet, the parser's buffer, whether
\* _process_buffer is running, the frames it handed to the engine, the number it
\* dropped for their checksum and the outcome of its last pass
ParseIo(items, stream, buffer, running, delivered, dropped, last) ==
    [fn |-> "parse", items |-> items, stream |-> stream, buffer |-> buffer,
     running |-> running, delivered |-> delivered, dropped |-> dropped,
     last |-> last]

ParseInit ==
    /\ engine \in Engines
    /\ aged = FALSE
    /\ \E t \in ParseTransports, c \in ParseConns :
          /\ transport = IF engine = T THEN t ELSE TransportNew
          /\ conn = IF engine = A THEN c.conn ELSE ConnNew
          /\ heap = IF engine = A THEN c.heap ELSE HeapNew
    /\ serialTh = SerialIdle
    /\ wsTh = [pc |-> "idle", cmd |-> 0, comm_no |-> 0, desc |-> ""]
    /\ cur = NoFrame
    /\ tx = <<>>
    /\ ev = <<>>
    /\ enq = NoEnqueue
    /\ hist = [HistNew EXCEPT !.polls = IF Pending = <<>> THEN 0 ELSE Pending[1].retries,
                              !.cmdTx = IF Pending = <<>> THEN 0 ELSE Pending[1].retries]
    /\ issued = IF State = "idle" THEN <<>> ELSE <<1>>
    /\ terminal = IF State = "idle" THEN <<>> ELSE <<<<>>>>
    /\ actor = "none"
    /\ \E items \in WireStreams :
          io = ParseIo(items, WireOf(items), <<>>, FALSE, <<>>, 0, "none")

\* ser.read: the next k bytes arrive and _process_buffer is called
\* (vmc_transport.py 57-59, app.py 260-268)
SerialRead(k) ==
    /\ io.fn = "parse"
    /\ ~io.running
    /\ serialTh.pc = "idle"
    /\ k \in 1..Len(io.stream)
    /\ io' = [io EXCEPT !.buffer = @ \o SubSeq(io.stream, 1, k),
                        !.stream = SubSeq(io.stream, k + 1, Len(io.stream)),
                        !.running = TRUE]
    /\ UNCHANGED <<engine, aged, transport, conn, heap, serialTh, wsTh, cur, tx, ev,
                   enq, hist, issued, terminal, actor>>

\* a pass of the loop that hands nothing to the engine: the observation of it
ParseQuiet(s, log) ==
    /\ cur' = IF s.kind = "bad"
              THEN [op |-> "bad", cmd |-> s.cmd, payload |-> <<>>, enqs |-> Len(issued),
                    pre |-> Snap, done |-> TRUE]
              ELSE cur
    /\ tx' = IF s.kind = "bad" THEN <<>> ELSE tx
    /\ ev' = IF s.kind = "bad" THEN log ELSE ev
    /\ actor' = "serial"
    /\ UNCHANGED <<engine, aged, transport, conn, heap, serialTh, wsTh, enq, hist,
                   issued, terminal>>

\* the record of the stream after a pass with outcome s
ParseIoAfter(s) ==
    [io EXCEPT !.buffer = s.buffer,
               !.running = s.kind # "wait",
               !.delivered = IF s.kind = "frame"
                             THEN Append(@, [cmd |-> s.cmd, payload |-> s.payload])
                             ELSE @,
               !.dropped = IF s.kind = "bad" THEN @ + 1 ELSE @,
               !.last = s.kind]

\* VMCTransport._process_buffer: one pass; a valid frame is handled at once
TransportParse ==
    /\ engine = T
    /\ io.fn = "parse"
    /\ io.running
    /\ LET s == TransportParseStep(io.buffer) IN
          /\ io' = ParseIoAfter(s)
          /\ IF s.kind = "frame"
             THEN TransportReceive(s.cmd, s.payload, TRUE)
             ELSE ParseQuiet(s, <<[event |-> "Checksum Error", cmd |-> s.cmd]>>)

\* VMCConnection._process_buffer: one pass; a valid frame goes to _handle_packet
ConnParse ==
    /\ engine = A
    /\ io.fn = "parse"
    /\ io.running
    /\ serialTh.pc = "idle"
    /\ LET s == ConnParseStep(io.buffer) IN
          /\ io' = ParseIoAfter(s)
          /\ IF s.kind = "frame"
             THEN IF s.cmd = CMD_POLL THEN ConnHandlePoll
                  ELSE IF s.cmd = CMD_ACK THEN ConnHandleAck
                  ELSE ConnHandleData(s.cmd, s.payload, TRUE)
             ELSE ParseQuiet(s, <<Log("Bad XOR, dropping frame")>>)

ParseNext ==
    \/ \E k \in ReadSizes : SerialRead(k)
    \/ TransportParse
    \/ ConnParse
    \/ ConnHandlerStep /\ UNCHANGED io

ParseSpec == ParseInit /\ [][ParseNext]_vars

---------------------------------------------------------------------------
(* The decoders (src/vmc_protocol.py) *)

\* payload[a:b] of Python: bytes a .. b-1 counted from 0, cut at the end of the payload
PySlice(payload, a, b) ==
    LET last == IF b < Len(payload) THEN b ELSE Len(payload)
    IN  IF a >= last THEN <<>> ELSE SubSeq(payload, a + 1, last)

HexDigits == <<"0", "1", "2", "3", "4", "5", "6", "7", "8", "9", "a", "b", "c", "d", "e", "f">>

\* bytes.hex(): two lower-case digits a byte, as a sequence of characters
Hex(bytes) ==
    [i \in 1..(2 * Len(bytes)) |->
        LET b == bytes[(i + 1) \div 2]
        IN  HexDigits[(IF i % 2 = 1 THEN b \div 16 ELSE b % 16) + 1]]

\* str.upper() on a sequence of characters
Upper(chars) ==
    [i \in 1..Len(chars) |->
        CASE chars[i] = "a" -> "A" [] chars[i] = "b" -> "B" [] chars[i] = "c" -> "C"
          [] chars[i] = "d" -> "D" [] chars[i] = "e" -> "E" [] chars[i] = "f" -> "F"
          [] OTHER -> chars[i]]

\* bytes.decode('ascii', errors='ignore'): the character codes below 128
AsciiIgnore(bytes) == SelectSeq(bytes, LAMBDA b : b < 128)

TooShort == [error |-> "packet too short"]

\* faulty variant of decode_generic: the first byte is left in raw_data
decode_generic_KeepsPackNo(payload) ==
    IF Len(payload) < 1 THEN [error |-> "packet empty"]
    ELSE [event |-> "vmc_data_unknown",
          pack_no |-> payload[1],
          raw_data |-> Upper(Hex(payload)),
          raw_payload |-> Hex(payload)]

\* decode_generic (lines 37-51)
decode_generic(payload) ==
    IF Len(payload) < 1 THEN [error |-> "packet empty"]
    ELSE [event |-> "vmc_data_unknown",
          pack_no |-> payload[1],
          raw_data |-> Upper(Hex(PySlice(payload, 1, Len(payload)))),
          raw_payload |-> Hex(payload)]

\* decode_slot_info (lines 112-128); '>HIBBHB' over payload[1:12]
decode_slot_info(payload) ==
    IF Len(payload) < 12 THEN TooShort
    ELSE LET data == PySlice(payload, 1, 12) IN
         [event |-> "slot_info",
          pack_no |-> payload[1],
          selection |-> FromBytes(SubSeq(data, 1, 2)),
          price |-> FromBytes(SubSeq(data, 3, 6)),
          inventory |-> data[7],
          capacity |-> data[8],
          product_id |-> FromBytes(SubSeq(data, 9, 10)),
          status |-> data[11],
          raw_payload |-> Hex(payload)]

\* decode_vend_status (lines 130-139)
decode_vend_status(payload) ==
    IF Len(payload) < 4 THEN TooShort
    ELSE [event |-> "vend_status",
          pack_no |-> payload[1],
          status_code |-> payload[2],
          selection |-> FromBytes(PySlice(payload, 2, 4)),
          raw_payload |-> Hex(payload)]

\* decode_machine_status (lines 141-151)
decode_machine_status(payload) ==
    IF Len(payload) < 25 THEN TooShort
    ELSE [event |-> "machine_status",
          pack_no |-> payload[1],
          temperature |-> payload[6],
          door_open |-> payload[7] = 1,
          machine_id |-> AsciiIgnore(PySlice(payload, 15, 25)),
          raw_payload |-> Hex(payload)]

\* decode_selection_status, the table of status messages (lines 158-167)
StatusMessage(status_code) ==
    CASE status_code = 1 -> "Normal"
      [] status_code = 2 -> "Out of stock"
      [] status_code = 3 -> "Selection doesn't exist"
      [] status_code = 4 -> "Selection pause"
      [] status_code = 5 -> "There is product inside elevator"
      [] status_code = 6 -> "Delivery door unlocked"
      [] status_code = 7 -> "Elevator error"
      [] status_code = 8 -> "Elevator self-checking faulty"
      [] OTHER -> "Unknown status"

\* decode_selection_status (lines 153-176)
decode_selection_status(payload) ==
    IF Len(payload) < 4 THEN TooShort
    ELSE [event |-> "selection_status",
          pack_no |-> payload[1],
          status_code |-> payload[2],
          status_message |-> StatusMessage(payload[2]),
          selection |-> FromBytes(PySlice(payload, 1, 3)),
          raw_payload |-> Hex(payload)]

\* decode_select_or_cancel (lines 178-186)
decode_select_or_cancel(payload) ==
    IF Len(payload) < 2 THEN TooShort
    ELSE [event |-> "select_or_cancel",
          pack_no |-> payload[1],
          selection |-> FromBytes(PySlice(payload, 1, 3)),
          raw_payload |-> Hex(payload)]

\* decode_receive_money (lines 188-197)
decode_receive_money(payload) ==
    IF Len(payload) < 5 THEN TooShort
    ELSE [event |-> "received_money",
          pack_no |-> payload[1],
          mode |-> payload[2],
          amount |-> FromBytes(PySlice(payload, 2, 6)),
          raw_payload |-> Hex(payload)]

\* decode_current_amount (lines 199-207)
decode_current_amount(payload) ==
    IF Len(payload) < 4 THEN TooShort
    ELSE [event |-> "current_amount",
          pack_no |-> payload[1],
          amount |-> FromBytes(PySlice(payload, 1, 5)),
          raw_payload |-> Hex(payload)]

\* the keys of DECODERS (lines 210-218): 0x11, 0x04, 0x52, 0x02, 0x05, 0x21, 0x23
DecoderIds == {17, 4, 82, 2, 5, 33, 35}

\* DECODERS[cmd](payload)
DECODERS(cmd, payload) ==
    CASE cmd = 17 -> decode_slot_info(payload)
      [] cmd = 4  -> decode_vend_status(payload)
      [] cmd = 82 -> decode_machine_status(payload)
      [] cmd = 2  -> decode_selection_status(payload)
      [] cmd = 5  -> decode_select_or_cancel(payload)
      [] cmd = 33 -> decode_receive_money(payload)
      [] cmd = 35 -> decode_current_amount(payload)

\* --- payloads decoded ---

\* first bytes of the payloads of registered commands: sequence echo 7, selection 12
\* (00 0C), amount 500 (00 00 01 F4); sequence echo 1, status 2, selection 12
PayloadHeads ==
    { <<7, 0, 12, 0, 0, 1, 244>>, <<1, 2, 0, 12>> }

\* first bytes of the payload of the unknown command 0x99
UnknownHeads == { <<7, 170, 187>> }

\* a payload of MaxDecodeLen bytes that begins with head
Padded(head) ==
    [i \in 1..MaxDecodeLen |-> IF i <= Len(head) THEN head[i] ELSE (11 * i) % 256]

\* every payload of 0..MaxDecodeLen bytes that begins as one of the heads
Prefixes(heads) ==
    {SubSeq(Padded(h), 1, n) : h \in heads, n \in 0..MaxDecodeLen}

\* the frames decoded: a registered command id with a payload whose 4-byte fields
\* stay below 2^31, or the unknown id 0x99 with any of the payloads
DecodeInputs ==
    (DecoderIds \X Prefixes(PayloadHeads))
       \cup ({153} \X Prefixes(PayloadHeads \cup UnknownHeads))

\* cmd and payload: the frame decoded; by: the decoder applied ("none" before);
\* out: what it returned
DecodeIo(cmd, payload, by, out) ==
    [fn |-> "decode", cmd |-> cmd, payload |-> payload, by |-> by, out |-> out]

DecoderInit ==
    /\ engine = T
    /\ aged = FALSE
    /\ transport = TransportNew
    /\ conn = ConnNew
    /\ heap = HeapNew
    /\ serialTh = SerialIdle
    /\ wsTh = [pc |-> "idle", cmd |-> 0, comm_no |-> 0, desc |-> ""]
    /\ cur = NoFrame
    /\ tx = <<>>
    /\ ev = <<>>
    /\ enq = NoEnqueue
    /\ hist = HistNew
    /\ issued = <<>>
    /\ terminal = <<>>
    /\ actor = "none"
    /\ \E in \in DecodeInputs : io = DecodeIo(in[1], in[2], "none", <<>>)

\* the decoder registered for the command id is applied to the payload
DecodeRegistered ==
    /\ io.fn = "decode"
    /\ io.by = "none"
    /\ io.cmd \in DecoderIds
    /\ io' = [io EXCEPT !.by = "registered", !.out = DECODERS(io.cmd, io.payload)]
    /\ UNCHANGED <<engine, aged, transport, conn, heap, serialTh, wsTh, cur, tx, ev,
                   enq, hist, issued, terminal, actor>>

\* decode_generic is applied to the payload
DecodeGeneric ==
    /\ io.fn = "decode"
    /\ io.by = "none"
    /\ io' = [io EXCEPT !.by = "generic", !.out = decode_generic(io.payload)]
    /\ UNCHANGED <<engine, aged, transport, conn, heap, serialTh, wsTh, cur, tx, ev,
                   enq, hist, issued, terminal, actor>>

DecoderNext == DecodeRegistered \/ DecodeGeneric

DecoderSpec == DecoderInit /\ [][DecoderNext]_vars

---------------------------------------------------------------------------
(* The two engines given the same events *)

\* what an engine shows of one event: the outcome of the enqueue ("none" for a
\* frame) and the number it assigned, the bytes written, and state, pending command
\* and counter after it
Shown(res, comm, written, snap) ==
    [res |-> res, comm |-> comm, tx |-> written, snap |-> snap]

\* what VMCTransport (t) and VMCConnection (a) showed of the last event
LockIo(t, a) == [fn |-> "lock", t |-> t, a |-> a]

\* both engines after construction, or both with the counter near MAX_COMM
LockInit ==
    /\ engine = A
    /\ aged \in BOOLEAN
    /\ transport = [TransportNew EXCEPT !.next_comm_no = IF aged THEN AgedComm ELSE @]
    /\ conn = [ConnNew EXCEPT !.next_comm = IF aged THEN AgedComm ELSE @]
    /\ heap = HeapNew
    /\ serialTh = SerialIdle
    /\ wsTh = [pc |-> "idle", cmd |-> 0, comm_no |-> 0, desc |-> ""]
    /\ cur = NoFrame
    /\ tx = <<>>
    /\ ev = <<>>
    /\ enq = NoEnqueue
    /\ hist = HistNew
    /\ issued = <<>>
    /\ terminal = <<>>
    /\ actor = "none"
    /\ io = NoIo

\* both engines are through with the last event: the next one may arrive
LockReady ==
    /\ serialTh.pc = "idle"
    /\ wsTh.pc = "idle"
    /\ actor \in {"none", "lockstep"}

\* VMCConnection is through with an event that VMCTransport has not seen yet
LockPending ==
    /\ serialTh.pc = "idle"
    /\ wsTh.pc = "idle"
    /\ actor \in {"serial", "caller"}

\* VMCTransport is given the enqueue that VMCConnection has just handled
LockTransportEnqueue(c) ==
    /\ engine = A
    /\ LockPending
    /\ enq.res # "none"
    /\ enq.res = "ok" =>
          c.cmd = enq.post.pending[1].cmd /\ c.payload = enq.post.pending[1].payload
    /\ LET r == send_command(transport, c.cmd, c.payload, c.desc) IN
          /\ transport' = r.self
          /\ io' = LockIo(Shown(IF r.raised = "none" THEN "ok" ELSE r.raised,
                                IF r.raised = "none" THEN r.self.pending_cmd[1].comm_no
                                ELSE 0,
                                r.tx, TransportSnap(r.self)),
                          Shown(enq.res, enq.comm, enq.tx, ConnSnap(conn, heap)))
    /\ actor' = "lockstep"
    /\ UNCHANGED <<engine, aged, conn, heap, serialTh, wsTh, cur, tx, ev, enq, hist,
                   issued, terminal>>

\* VMCTransport is given the frame that VMCConnection has just handled
LockTransportFrame ==
    /\ engine = A
    /\ LockPending
    /\ enq.res = "none"
    /\ cur.op # "none"
    /\ LET r == HandleValidPacket(transport, cur.cmd, cur.payload, TRUE) IN
          /\ transport' = r.self
          /\ io' = LockIo(Shown("none", 0, r.tx, TransportSnap(r.self)),
                          Shown("none", 0, tx, ConnSnap(conn, heap)))
    /\ actor' = "lockstep"
    /\ UNCHANGED <<engine, aged, conn, heap, serialTh, wsTh, cur, tx, ev, enq, hist,
                   issued, terminal>>

\* one event at a time, every serial write succeeding: VMCConnection handles it to
\* the end, then VMCTransport is given the same event
LockNext ==
    \/ \E c \in Commands : LockReady /\ ConnQueueCommand(c)
    \/ ConnQueueNotify
    \/ LockReady /\ ConnHandlePoll /\ UNCHANGED io
    \/ LockReady /\ ConnHandleAck /\ UNCHANGED io
    \/ \E f \in DataFrames : LockReady /\ ConnHandleData(f.cmd, f.payload, TRUE) /\ UNCHANGED io
    \/ ConnHandlerStep
    \/ \E c \in Commands : LockTransportEnqueue(c)
    \/ LockTransportFrame

LockSpec == LockInit /\ [][LockNext]_vars

---------------------------------------------------------------------------
(* Properties *)

BusyStates == {"waiting_ack", "waiting_data"}

\* a serial write failed while cur was handled
WriteFailed ==
    \E i \in 1..Len(ev) :
        \/ ev[i].event = "Serial Error"
        \/ /\ ev[i].event = "log"
           /\ ev[i].message \in {"Serial write error (ACK)", "Serial write error (CMD)"}

IsTimeoutEvent(e) == e.event \in {"Timeout", "command_timeout"}
IsFinishedEvent(e) == e.event \in {"Finished", "command_finished"}
IsDataEvent(e) == e.event \in {"on_packet", "slot_info", "vend_status", "vmc_data"}

\* the handling of a frame of kind op, which met state st, is complete
Handled(op, st) == cur.op = op /\ cur.done /\ cur.pre.state = st

\* no enqueue has succeeded since the handling of cur began
NoEnqueueSince == Len(issued) = cur.enqs

\* the frame on the wire for the pending command p
CommandFrame(p) == build_frame(p.cmd, p.comm, p.payload)

\* C1: in both engines an enqueue attempted in waiting_ack or waiting_data fails
\* with Busy and leaves the state, the pending command (id, sequence number,
\* payload, retry count) and the sequence counter as they were
C1_BusyEnqueueChangesNothing ==
    /\ [](enq.res # "none" /\ enq.pre.state \in BusyStates
            => enq.res = "Busy" /\ enq.post = enq.pre)
    /\ [][actor' = "caller" /\ State \in BusyStates => Snap' = Snap]_vars

C1_Witness ==
    /\ engine = A
    /\ enq.res = "Busy"
    /\ enq.pre.state = "waiting_data"
    /\ enq.pre.pending[1].retries > 0
    /\ Snap = enq.pre

\* C2: with no ack arriving, each of the first 5 polls after an enqueue transmits
\* the command frame, the 6th transmits a bare ack instead, emits exactly one
\* timeout event, clears the pending command and returns to idle; the command
\* frame is never transmitted a 6th time
C2_FivePollsThenTimeout ==
    /\ hist.cmdTx <= MAX_RETRIES
    /\ State = "waiting_ack" /\ cur.done /\ hist.fails = 0
          => Pending[1].retries = hist.polls /\ hist.cmdTx = hist.polls
    /\ Handled("poll", "waiting_ack") /\ cur.pre.pending[1].retries < MAX_RETRIES
          /\ ~WriteFailed
          => /\ tx = <<CommandFrame(cur.pre.pending[1])>>
             /\ State = "waiting_ack"
             /\ Pending = <<[cur.pre.pending[1] EXCEPT !.retries = @ + 1]>>
             /\ SelectSeq(ev, IsTimeoutEvent) = <<>>
             /\ SelectSeq(ev, IsFinishedEvent) = <<>>
    /\ Handled("poll", "waiting_ack") /\ cur.pre.pending[1].retries >= MAX_RETRIES
          => /\ cur.pre.pending[1].retries = MAX_RETRIES
             /\ WriteFailed \/ tx = <<TransportAck>>
             /\ SelectSeq(tx, IsNotAck) = <<>>
             /\ Len(SelectSeq(ev, IsTimeoutEvent)) = 1
             /\ SelectSeq(ev, IsFinishedEvent) = <<>>
             /\ NoEnqueueSince => State = "idle" /\ Pending = <<>>
             /\ NoEnqueueSince /\ hist.fails = 0
                   => hist.polls = MAX_RETRIES + 1 /\ hist.cmdTx = MAX_RETRIES

C2_Witness ==
    /\ Handled("poll", "waiting_ack")
    /\ cur.pre.pending[1].retries = MAX_RETRIES
    /\ hist.polls = MAX_RETRIES + 1
    /\ hist.cmdTx = MAX_RETRIES
    /\ tx = <<TransportAck>>
    /\ State = "idle"

\* C3: whenever the state lock is free, under every interleaving of enqueueing
\* callers with the thread handling frames, the state is idle exactly when no
\* command is pending, waiting_ack and waiting_data have exactly one, and an
\* enqueue succeeds only from idle (of two racing from idle, one is rejected)
C3_OnePendingIffNotIdle ==
    /\ [](/\ State \in {"idle", "waiting_ack", "waiting_data"}
          /\ State = "idle" <=> Pending = <<>>
          /\ State \in BusyStates => Len(Pending) = 1
          /\ conn.current_cmd # 0 => heap[conn.current_cmd] # <<>>)
    /\ [][Len(issued') # Len(issued)
            => State = "idle" /\ State' = "waiting_ack"
                  /\ Len(issued') = Len(issued) + 1]_vars

C3_Witness ==
    /\ engine = A
    /\ serialTh.pc = "finish_ack"
    /\ enq.res = "Busy"
    /\ State = "waiting_data"
    /\ Len(Pending) = 1

\* the successor of a sequence number
SuccComm(n) == IF n = MAX_COMM THEN 1 ELSE n + 1

\* C4: the sequence numbers of consecutive successful enqueues start at 1, each is
\* the previous plus 1, 1 follows 255, 0 is never assigned, and a rejected enqueue
\* consumes none
C4_SequenceNumbers ==
    /\ \A i \in 1..Len(issued) : issued[i] \in 1..MAX_COMM
    /\ ~aged /\ issued # <<>> => issued[1] = 1
    /\ \A i \in 1..(Len(issued) - 1) : issued[i + 1] = SuccComm(issued[i])
    /\ issued # <<>> => NextComm = SuccComm(issued[Len(issued)])
    /\ enq.res = "ok" => enq.comm = enq.pre.next /\ enq.post.pending[1].comm = enq.comm
    /\ enq.res = "Busy" => enq.post.next = enq.pre.next

C4_Witness ==
    /\ Len(issued) >= 2
    /\ issued[Len(issued) - 1] = MAX_COMM
    /\ issued[Len(issued)] = 1
    /\ enq.res = "Busy"

\* C5: an ack frame received while the engine is idle changes nothing: the state,
\* the (absent) pending command and the sequence counter stay as they are and
\* nothing is written to the serial link
C5_AckInIdleChangesNothing ==
    /\ [](cur.op = "ack" /\ cur.pre.state = "idle" => tx = <<>> /\ cur.pre.pending = <<>>)
    /\ [][actor' = "serial" /\ cur'.op = "ack" /\ cur'.pre.state = "idle"
            => Snap' = Snap]_vars

C5_Witness ==
    /\ Handled("ack", "idle")
    /\ State = "idle"
    /\ Pending = <<>>
    /\ tx = <<>>


\* C6, as stated: a data frame received while the engine is idle is ignored: the
\* state stays idle, nothing is written to the serial link and no event for the
\* frame reaches the callback or the WebSocket
C6_DataInIdleIgnored ==
    Handled("data", "idle")
        => /\ NoEnqueueSince => State = "idle"
           /\ tx = <<>>
           /\ SelectSeq(ev, IsDataEvent) = <<>>

\* C6, amended: a data frame received while the engine is idle leaves the state
\* idle, the pending slot empty and the counter unchanged, and it is not ignored:
\* unless the serial write fails, exactly one bare ack is written and exactly one
\* event for the frame is delivered
C6_DataInIdleAckedAndDelivered ==
    /\ [](Handled("data", "idle") /\ ~WriteFailed
            => /\ tx = <<TransportAck>>
               /\ Len(SelectSeq(ev, IsDataEvent)) = 1
               /\ Len(ev) = 1
               /\ ev[1].cmd = cur.cmd)
    /\ [][actor' = "serial" /\ cur'.op = "data" /\ cur'.pre.state = "idle"
            => Snap' = Snap]_vars

C6_Witness ==
    /\ Handled("data", "idle")
    /\ State = "idle"
    /\ tx = <<TransportAck>>
    /\ Len(ev) = 1
    /\ IsDataEvent(ev[1])

\* C7: the slave never transmits unsolicited: every write to the serial link
\* happens while a received checksum-valid frame is handled, a command frame is
\* written only while a poll is handled, and an enqueue writes nothing
C7_NeverUnsolicited ==
    /\ [](enq.tx = <<>>)
    /\ [](tx # <<>> => cur.op \in {"poll", "ack", "data"})
    /\ [](\A i \in 1..Len(tx) : IsNotAck(tx[i]) => cur.op = "poll")
    /\ [](hist.cmdTx > 0 => hist.polls > 0)
    /\ [][tx' # tx /\ tx' # <<>> => actor' = "serial"]_vars

C7_Witness ==
    /\ cur.op = "poll"
    /\ cur.done
    /\ Len(tx) = 1
    /\ IsNotAck(tx[1])
    /\ hist.cmdTx = 1

\* C8: an ack received in waiting_ack moves the engine to waiting_data, writes
\* nothing and leaves the pending command's id, sequence number, payload and retry
\* count as they were; from then on no command frame of that transaction is
\* written, whatever polls follow
C8_AckMovesToWaitingData ==
    /\ [](Handled("ack", "waiting_ack")
            => tx = <<>> /\ State = "waiting_data" /\ Pending = cur.pre.pending)
    /\ [](State = "waiting_data" \/ cur.pre.state = "waiting_data"
            => SelectSeq(tx, IsNotAck) = <<>>)
    /\ [][State = "waiting_data" => hist'.cmdTx = hist.cmdTx]_vars

C8_Witness ==
    /\ Handled("ack", "waiting_ack")
    /\ State = "waiting_data"
    /\ Pending[1].retries = 3
    /\ hist.cmdTx = 3

\* C9: the first poll received in waiting_data writes exactly one bare ack (unless
\* the serial write fails), emits exactly one finished event for the pending
\* command, clears the pending command and returns the engine to idle, whether or
\* not a data frame was received since the ack
C9_PollInWaitingDataFinishes ==
    Handled("poll", "waiting_data")
        => /\ WriteFailed \/ tx = <<TransportAck>>
           /\ SelectSeq(tx, IsNotAck) = <<>>
           /\ Len(SelectSeq(ev, IsFinishedEvent)) = 1
           /\ SelectSeq(ev, IsTimeoutEvent) = <<>>
           /\ engine = A => ev[Len(ev)].comm_no = cur.pre.pending[1].comm
           /\ NoEnqueueSince => State = "idle" /\ Pending = <<>>

C9_Witness ==
    /\ Handled("poll", "waiting_data")
    /\ hist.data
    /\ tx = <<TransportAck>>
    /\ State = "idle"
    /\ Pending = <<>>

\* C10: a data frame received in waiting_data leaves the state in waiting_data and
\* the pending command (id, sequence number, payload, retry count) unchanged,
\* writes exactly one bare ack (the serial write succeeding) and delivers exactly
\* one event for the frame
C10_DataInWaitingData ==
    /\ [](Handled("data", "waiting_data") /\ ~WriteFailed
            => /\ State = "waiting_data"
               /\ Pending = cur.pre.pending
               /\ tx = <<TransportAck>>
               /\ Len(ev) = 1
               /\ IsDataEvent(ev[1])
               /\ ev[1].cmd = cur.cmd)
    /\ [][actor' = "serial" /\ cur'.op = "data" /\ cur'.pre.state = "waiting_data"
            => Snap' = Snap]_vars

C10_Witness ==
    /\ engine = A
    /\ Handled("data", "waiting_data")
    /\ State = "waiting_data"
    /\ tx = <<TransportAck>>
    /\ Len(ev) = 1
    /\ ev[1].event = "vend_status"

\* C11: every successfully enqueued command gets at most one terminal event
\* (finished or timeout, never both, never twice), and a terminal event is emitted
\* only by the handling of the poll that clears that command's slot and returns
\* the state to idle: in VMCTransport within the same locked section, in
\* VMCConnection as the step that follows the locked section
C11_OneTerminalEvent ==
    /\ [](Len(terminal) = Len(issued))
    /\ [](\A i \in 1..Len(terminal) : Len(terminal[i]) <= 1)
    /\ [](\A i \in 1..Len(enq.ev) : ~IsTerminalEvent(enq.ev[i]))
    /\ [](/\ Len(SelectSeq(ev, IsTerminalEvent)) <= 1
          /\ SelectSeq(ev, IsTerminalEvent) # <<>>
                => cur.op = "poll" /\ cur.pre.state \in BusyStates)
    /\ [](engine = A /\ serialTh.pc \in {"timeout_ws", "finish_ws"}
            => /\ heap[serialTh.c][1].done
               /\ conn.current_cmd # serialTh.c
               /\ NoEnqueueSince => State = "idle" /\ Pending = <<>>)
    /\ [][terminal' # terminal /\ Len(issued') = Len(issued)
            => /\ actor' = "serial"
               /\ cur'.op = "poll"
               /\ cur'.pre.state \in BusyStates
               /\ \E k \in {"timeout", "finished"} :
                     terminal' = Credit(terminal, issued, cur'.pre.pending[1].comm, k)
               /\ SelectSeq(ev', IsTerminalEvent) # <<>>
               /\ engine = T => State # "idle" /\ State' = "idle" /\ Pending' = <<>>
               /\ engine = A => serialTh.pc \in {"timeout_ws", "finish_ws"}]_vars

C11_Witness ==
    /\ engine = A
    /\ Len(terminal) = 2
    /\ terminal[1] = <<"timeout">>
    /\ terminal[2] = <<"finished">>
    /\ State = "idle"

\* C12: with polls arriving for ever and serial writes succeeding, no transaction
\* hangs: every successfully enqueued command eventually gets its terminal event,
\* the engine eventually is idle again, and an enqueue made in idle succeeds
C12_NoTransactionHangs ==
    /\ \A i \in 1..EnqueueLimit :
          [](Len(issued) >= i => <>(Len(terminal) >= i /\ Len(terminal[i]) = 1))
    /\ (State # "idle") ~> (State = "idle" /\ Pending = <<>>)
    /\ [](enq.res # "none" /\ enq.pre.state = "idle" => enq.res = "ok")

C12_Witness ==
    /\ Len(issued) = 2
    /\ terminal[1] = <<"timeout">>
    /\ enq.res = "ok"
    /\ enq.pre.state = "idle"
    /\ State = "waiting_ack"

\* --- the frame codec, under ParseSpec ---

\* every byte of the stream was read and _process_buffer returned
ParseFinished == io.fn = "parse" /\ io.stream = <<>> /\ ~io.running /\ io.last = "wait"

\* the frame a wire item carries
FrameOf(item) == [cmd |-> item.cmd, payload |-> WirePayload(item)]

\* C13: the bytes of a frame built by build_packet, or by build_frame with the
\* sequence byte before the payload, read into an empty buffer in reads of any
\* size, make _process_buffer deliver exactly one frame, with the command id and
\* the payload that were built, and leave the buffer empty; nothing is delivered
\* before the frame is complete and nothing is dropped.
C13_FrameRoundTrip ==
    (io.fn = "parse" /\ Len(io.items) = 1 /\ io.items[1].fault = "none") =>
        /\ io.dropped = 0
        /\ io.delivered \in {<<>>, <<FrameOf(io.items[1])>>}
        /\ io.stream # <<>> => io.delivered = <<>>
        /\ ParseFinished => io.delivered = <<FrameOf(io.items[1])>> /\ io.buffer = <<>>

\* a data frame whose id and payload are start bytes went round, sequence byte and all
C13_Witness ==
    /\ ParseFinished
    /\ engine = A
    /\ io.items = <<WireItem(STX1, <<STX1, STX2>>, 7, "none", 0, 0)>>
    /\ io.delivered = <<[cmd |-> STX1, payload |-> <<7, STX1, STX2>>]>>
    /\ io.buffer = <<>>

\* C14: a built frame with one bit of one payload byte flipped, header and checksum
\* as built, fails the exclusive-or check of _process_buffer: it is dropped and never
\* delivered to the engine.
C14_PayloadBitFlipDetected ==
    (io.fn = "parse" /\ Len(io.items) = 1 /\ io.items[1].fault = "flip") =>
        LET f == OnWire(io.items[1]) IN
        /\ XorAll(SubSeq(f, 1, Len(f) - 1)) # f[Len(f)]
        /\ io.delivered = <<>>
        /\ cur = NoFrame \/ cur.op = "bad"
        /\ ParseFinished => io.dropped = 1 /\ io.buffer = <<>>

\* the top bit of the last payload byte was flipped and the frame was dropped
C14_Witness ==
    /\ ParseFinished
    /\ engine = T
    /\ io.items = <<WireItem(CMD_POLL, <<0, STX2>>, 0, "flip", 2, 7)>>
    /\ io.dropped = 1
    /\ io.delivered = <<>>

\* C15: a complete frame in the buffer whose trailing byte is not the exclusive-or of
\* the bytes before it is removed from the buffer, whole and alone: the engine's state,
\* pending command and counter stay, nothing is written, the frame is not handed to
\* the engine (a log line is all it leaves), and the bytes that follow it are parsed:
\* the frame after it is delivered.
C15_BadChecksumFrameDropped ==
    /\ [][(io.fn = "parse" /\ io'.dropped # io.dropped) =>
            /\ io'.dropped = io.dropped + 1
            /\ UNCHANGED <<transport, conn, heap, serialTh, wsTh, hist, terminal>>
            /\ tx' = <<>>
            /\ \A i \in 1..Len(ev') : ev'[i].event \in {"log", "Checksum Error"}
            /\ io'.delivered = io.delivered
            /\ io'.buffer \o io'.stream = WireOf(Tail(io.items))
            /\ io'.running]_vars
    /\ []((io.fn = "parse" /\ io.items[1].fault = "sum") =>
            /\ \A i \in 1..Len(io.delivered) :
                  Len(io.items) = 2 /\ io.delivered[i] = FrameOf(io.items[2])
            /\ ParseFinished =>
                  /\ io.dropped = 1
                  /\ io.buffer = <<>>
                  /\ Len(io.delivered) = Len(io.items) - 1)

\* a frame with a bad checksum was dropped in waiting_ack and the poll behind it
\* was answered with the pending command
C15_Witness ==
    /\ ParseFinished
    /\ Len(io.items) = 2
    /\ io.items[1].fault = "sum"
    /\ io.items[1].payload = <<STX1, STX2>>
    /\ io.dropped = 1
    /\ io.delivered = <<[cmd |-> CMD_POLL, payload |-> <<>>]>>
    /\ State = "waiting_ack"
    /\ Pending # <<>> /\ Pending[1].retries = 1

\* --- the command frame, under Spec ---

\* frame f carries command c under sequence number seq: start bytes, the command's
\* id, a length of 1 plus the payload length, the sequence number, the payload as
\* enqueued and the exclusive-or of all that
IsFrameOf(f, c, seq) ==
    /\ Len(f) = 6 + Len(c.payload)
    /\ f[1] = STX1 /\ f[2] = STX2
    /\ f[3] = c.cmd
    /\ f[4] = 1 + Len(c.payload)
    /\ f[5] = seq
    /\ SubSeq(f, 6, Len(f) - 1) = c.payload
    /\ f[Len(f)] = XorAll(SubSeq(f, 1, Len(f) - 1))

\* the frames other than acks among those written by the last step
CommandFramesWritten == SelectSeq(tx, IsNotAck)

\* C16: the frame written on a poll met in waiting_ack carries the pending command:
\* its id, a length byte of 1 plus the payload length, the sequence number the
\* enqueue assigned followed by the payload enqueued (buy selection=12: id 0x03,
\* length 3, bytes seq 0x00 0x0C), and the exclusive-or of the bytes before it; it is
\* written on such polls only, and every frame written for one transaction is the
\* same bytes.
C16_CommandFrameLayout ==
    /\ CommandFramesWritten # <<>> =>
          /\ cur.op = "poll"
          /\ cur.pre.state = "waiting_ack"
          /\ Len(CommandFramesWritten) = 1
          /\ cur.pre.pending # <<>>
          /\ cur.pre.pending[1].retries < MAX_RETRIES
          /\ CommandFramesWritten[1] \in hist.frames
    /\ Cardinality(hist.frames) <= 1
    /\ \A f \in hist.frames :
          /\ issued # <<>>
          /\ \E c \in Commands : IsFrameOf(f, c, issued[Len(issued)])
          /\ f[3] = CMD_SELECT_BUY =>
                f[4] = 3 /\ SubSeq(f, 5, 7) = <<issued[Len(issued)], 0, 12>>
          /\ Pending # <<>> =>
                IsFrameOf(f, [cmd |-> Pending[1].cmd, payload |-> Pending[1].payload],
                          Pending[1].comm)

\* the second transmission of buy selection=12 under sequence number 1:
\* FA FB 03 03 01 00 0C 0C, as the first
C16_Witness ==
    /\ cur.op = "poll"
    /\ cur.pre.state = "waiting_ack"
    /\ cur.pre.pending[1].retries = 1
    /\ tx = <<(<<250, 251, 3, 3, 1, 0, 12, 12>>)>>
    /\ hist.cmdTx = 2
    /\ hist.frames = {<<250, 251, 3, 3, 1, 0, 12, 12>>}

\* --- the decoders, under DecoderSpec ---

\* the result is a decoded event, not an error result
IsDecoded(out) == "event" \in DOMAIN out

\* bytes of payload that hold the fields a decoder reads: the sequence echo and the
\* fields after it, 2 bytes a selection or product id, 4 bytes a price or an amount
FieldBytes(cmd) ==
    CASE cmd = 17 -> 1 + 2 + 4 + 1 + 1 + 2 + 1
      [] cmd = 4  -> 1 + 1 + 2
      [] cmd = 82 -> 15 + 10
      [] cmd = 2  -> 1 + 2
      [] cmd = 5  -> 1 + 2
      [] cmd = 33 -> 1 + 1 + 4
      [] cmd = 35 -> 1 + 4

\* C17: every decoder of DECODERS returns the too-short error for a payload that
\* does not hold every byte of every field it reads; when it returns a decoded event
\* every field was read at its full width.
\* Violated: decode_select_or_cancel decodes a payload of 2 bytes (selection read
\* from 1 byte), decode_receive_money one of 5 bytes (amount from 3 bytes),
\* decode_current_amount one of 4 bytes (amount from 3 bytes).
C17_TooShortUnlessFieldsComplete ==
    (io.fn = "decode" /\ io.by = "registered") =>
        /\ Len(io.payload) < FieldBytes(io.cmd) => io.out = TooShort
        /\ IsDecoded(io.out) => Len(io.payload) >= FieldBytes(io.cmd)

UpperHexDigits ==
    <<"0", "1", "2", "3", "4", "5", "6", "7", "8", "9", "A", "B", "C", "D", "E", "F">>

\* chars spells bytes in upper-case hex, two digits a byte, high digit first
SpellsUpperHex(chars, bytes) ==
    /\ Len(chars) = 2 * Len(bytes)
    /\ \A i \in 1..Len(bytes) :
          /\ chars[2 * i - 1] = UpperHexDigits[(bytes[i] \div 16) + 1]
          /\ chars[2 * i] = UpperHexDigits[(bytes[i] % 16) + 1]

\* what decode_generic returns for a payload that is not empty
GenericDecoded(out, payload) ==
    /\ IsDecoded(out)
    /\ "error" \notin DOMAIN out
    /\ out.event = "vmc_data_unknown"
    /\ out.pack_no = payload[1]
    /\ SpellsUpperHex(out.raw_data, Tail(payload))
    /\ payload = <<7, 170, 187>> => out.pack_no = 7 /\ out.raw_data = <<"A", "A", "B", "B">>

\* C18 as claimed: decode_generic succeeds for every payload, the empty one
\* included, and never returns an error result.
\* Violated: for the empty payload it returns the error result "packet empty".
C18_GenericAlwaysSucceeds ==
    (io.fn = "decode" /\ io.by = "generic") =>
        /\ "error" \notin DOMAIN io.out
        /\ IsDecoded(io.out)
        /\ io.payload # <<>> => GenericDecoded(io.out, io.payload)

\* C18, amended: decode_generic succeeds for every payload that is not empty,
\* whatever the command id: pack_no is the first byte and raw_data the remaining
\* bytes in upper-case hex (07 AA BB gives pack_no 7 and "AABB"); for the empty
\* payload it returns the error result "packet empty" and no event.
C18_GenericSucceedsUnlessEmpty ==
    (io.fn = "decode" /\ io.by = "generic") =>
        IF io.payload = <<>>
        THEN io.out = [error |-> "packet empty"]
        ELSE GenericDecoded(io.out, io.payload)

\* the unknown command 0x99 with payload 07 AA BB was decoded to 7 and "AABB"
C18_Witness ==
    /\ io.fn = "decode"
    /\ io.by = "generic"
    /\ io.cmd = 153
    /\ io.payload = <<7, 170, 187>>
    /\ io.out.pack_no = 7
    /\ io.out.raw_data = <<"A", "A", "B", "B">>
    /\ io.out.raw_payload = <<"0", "7", "a", "a", "b", "b">>

\* --- malformed data and rejected requests, under Spec ---

\* the handling of a slot-info frame whose payload is shorter than its fields is
\* complete, and no write failed
ShortSlotInfoHandled ==
    /\ cur.op = "data"
    /\ cur.done
    /\ cur.cmd = CMD_SLOT_INFO
    /\ Len(cur.payload) < 12
    /\ ~WriteFailed

\* C19: a checksum-valid slot-info frame (0x11) with a payload of fewer than 12
\* bytes, met in any state, is answered with exactly one ack, raises nothing, and the
\* event produced for it is the too-short error: VMCTransport hands the frame to
\* on_packet, where decode_slot_info gives the error; VMCConnection sends an error
\* event, not slot_info and not the generic vmc_data.
\* Violated: VMCConnection sends the generic vmc_data event.
C19_ShortSlotInfoIsTooShort ==
    ShortSlotInfoHandled =>
        /\ tx = <<TransportAck>>
        /\ Len(SelectSeq(ev, LAMBDA e : e.event # "log")) = 1
        /\ \A i \in 1..Len(ev) :
              /\ ev[i].event \notin {"slot_info", "vmc_data", "Serial Error"}
              /\ ev[i].event = "on_packet" =>
                    DECODERS(ev[i].cmd, ev[i].payload) = TooShort
        /\ engine = A => \E i \in 1..Len(ev) : ev[i].event = "error"

\* a request was rejected before _queue_command
RequestRejected == io.fn = "ws"

HasErrorEvent(events) == \E i \in 1..Len(events) : events[i].event = "error"

\* C20: a request that handle_ws_message rejects (no JSON, no type or an unknown
\* one, a numeric field missing or out of range, or the engine busy) produces an
\* error event and leaves state, pending command and counter as they were, and
\* nothing is written to the serial link for it.
\* Violated: for a text that is JSON but no object ([], null) the method raises
\* AttributeError and no error event is sent.
C20_RejectedRequestGivesErrorEvent ==
    /\ RequestRejected =>
          /\ io.raised = "none"
          /\ HasErrorEvent(io.ev)
          /\ io.kept
    /\ (engine = A /\ enq.res = "Busy") =>
          /\ HasErrorEvent(enq.ev)
          /\ enq.post = enq.pre
          /\ enq.tx = <<>>

\* --- the byte stream split over reads, under ParseSpec ---

\* the stream is noise followed by a checksum-valid frame
NoiseThenFrame ==
    io.fn = "parse" /\ Len(io.items) = 2 /\ io.items[1].fault = "garbage"

\* C21: a checksum-valid frame behind bytes of noise that hold no sync pair is
\* delivered exactly once however the stream is split over the reads, a split
\* between 0xFA and 0xFB included, by both parsers.
\* Violated: VMCConnection._process_buffer clears a buffer of 5 bytes or more in
\* which it finds no sync pair, the 0xFA at its end included; the frame is lost.
C21_DeliveryIndependentOfChunking ==
    NoiseThenFrame =>
        /\ io.dropped = 0
        /\ io.delivered \in {<<>>, <<FrameOf(io.items[2])>>}
        /\ ParseFinished => io.delivered = <<FrameOf(io.items[2])>>

\* --- the retry budget, under Spec ---

\* C22: the retry budget counts polls: every poll handled in waiting_ack takes one
\* of the MAX_RETRIES retries, whether the write of the command frame succeeds or
\* fails, so a command that is not acked is abandoned by its 6th poll at the latest.
\* Violated: VMCTransport._transmit_pending counts the retry after ser.write, so a
\* write that raises takes no retry and the timeout moves one poll further for each.
C22_RetryBudgetCountsPolls ==
    /\ (State = "waiting_ack" /\ Pending # <<>> /\ serialTh.pc = "idle") =>
          Pending[1].retries = hist.polls
    /\ State = "waiting_ack" => hist.polls <= MAX_RETRIES + 1
    /\ (\E i \in 1..Len(ev) : IsTimeoutEvent(ev[i])) => hist.polls <= MAX_RETRIES + 1

\* --- completion, under Spec ---

\* C23: a transaction is reported finished only when its command frame was written
\* at least once: an ack met in waiting_ack before any poll does not take the engine
\* to waiting_data, and on to the finished event, with the command never sent.
\* Violated: both engines take any ack met in waiting_ack as the ack of the pending
\* command, whatever its retry count.
C23_FinishedOnlyAfterTransmission ==
    /\ (State = "waiting_data" /\ NoEnqueueSince) => hist.cmdTx >= 1
    /\ ((\E i \in 1..Len(ev) : IsFinishedEvent(ev[i])) /\ NoEnqueueSince) =>
          hist.cmdTx >= 1

\* --- the order of the WebSocket messages of one command, under Spec ---

\* e reports the transmission or the end of the command numbered comm
IsProgressOf(e, comm) ==
    /\ e.event \in {"command_sent", "command_finished", "command_timeout"}
    /\ e.comm_no = comm

\* C24: in VMCConnection the command_queued message of a command goes to the
\* WebSocket before every command_sent, command_finished and command_timeout of that
\* command: while _queue_command has not yet sent it, the serial thread has sent none
\* of them.
\* Violated: _queue_command sends command_queued after it has released state_lock,
\* and a poll handled in between sends command_sent first.
C24_QueuedBeforeProgress ==
    (engine = A /\ wsTh.pc = "notify") =>
        \A i \in 1..Len(ev) : ~IsProgressOf(ev[i], wsTh.comm_no)

\* --- one answer a poll, under Spec ---

\* C25: every poll, met in any state and with enqueues of the other thread falling
\* anywhere in its handling, is answered with exactly one frame when the writes
\* succeed: the bare ack or the frame of the pending command, never two frames and
\* never none; while it is handled at most one frame has been written.
C25_OneFramePerPoll ==
    /\ cur.op = "poll" => Len(tx) <= 1
    /\ (cur.op = "poll" /\ cur.done /\ ~WriteFailed) =>
          /\ Len(tx) = 1
          /\ \/ tx[1] = TransportAck
             \/ /\ cur.pre.state = "waiting_ack"
                /\ cur.pre.pending # <<>>
                /\ tx[1] = CommandFrame(cur.pre.pending[1])

\* a poll that met VMCConnection idle was answered with the bare ack although an
\* enqueue succeeded while it was handled
C25_Witness ==
    /\ engine = A
    /\ Handled("poll", "idle")
    /\ tx = <<TransportAck>>
    /\ wsTh.pc = "notify"
    /\ State = "waiting_ack"
    /\ Len(issued) = cur.enqs + 1

\* --- the two engines side by side, under LockSpec ---

\* C26: given the same enqueues, polls, acks and data frames one after the other,
\* with every serial write succeeding, VMCConnection and VMCTransport accept and
\* refuse the same enqueues, assign the same sequence numbers, write the same bytes
\* (the bare ack FA FB 42 00 43 and the command frames) and are in the same state
\* with the same pending command, retry count and counter after every event.
C26_EnginesEquivalent ==
    actor = "lockstep" =>
        /\ io.fn = "lock"
        /\ io.t = io.a
        /\ (enq.res = "none" /\ cur.op = "poll") => Len(io.a.tx) = 1
        /\ TransportSnap(transport) = ConnSnap(conn, heap)

\* both engines answered the second poll after the counter wrapped with the frame
\* of buy selection=12 under number 1, and count two retries
C26_Witness ==
    /\ io.fn = "lock"
    /\ actor = "lockstep"
    /\ aged
    /\ Len(issued) = 2
    /\ io.t.tx = <<(<<250, 251, 3, 3, 1, 0, 12, 12>>)>>
    /\ io.a.tx = io.t.tx
    /\ io.t.snap.state = "waiting_ack"
    /\ io.t.snap.pending[1].retries = 2
    /\ io.a.snap = io.t.snap

=============================================================================
